---- MODULE Spec2Model ----
(***************************************************************************)
(* mlocate-tools: the duplicate-directory detector (dup_dirs.py: the       *)
(* DirHashStack and the App built on it), DictOfLists, the mlocate         *)
(* database decoder (mlocate.py), safe_decode (binutils.py), DirBlock      *)
(* (dirblock.py), Tree (tree.py) and the find and tree queries (find.py,   *)
(* subtree.py).                                                            *)
(*                                                                         *)
(* Byte strings are sequences of byte values (b'/a' is <<47, 97>>), texts  *)
(* are sequences of code points.  A SHA-256 state is modelled by the byte  *)
(* string it has absorbed and hexdigest by a tagged copy of it: an ideal,  *)
(* collision-free hash.                                                    *)
(***************************************************************************)
EXTENDS Integers, Sequences, FiniteSets, TLC

VARIABLES
    stack,      \* DirHashStack.stack: list of (name, sha256 state)
    on_pop,     \* DirHashStack.on_pop is set (App) or None (bare stack)
    tree,       \* App.tree: DictOfLists, parent digest -> child digests
    rtree,      \* App.rtree: DictOfLists, child digest -> parent digests
    by_ck,      \* App.by_ck: DictOfLists, digest -> directory paths
    pc,         \* where App.run stands: "run", "done", "crashed"; "stack"
                \* for a DirHashStack used alone
    d,          \* the directory block last passed to process_dir
    banner,     \* first line printed by App.report
    printed,    \* the duplicate sets printed by App.report
    calls,      \* history: the sum_contents calls made so far
    pops,       \* history: the pops made so far
    sel,        \* history: the last select call
    ndirs,      \* number of operations performed so far (bounded)
    db,         \* MLocateDB.db: the bytes of the open database file
    pos,        \* the cursor of MLocateDB.db (what db.tell() returns)
    header,     \* MLocateDB.header
    conf,       \* MLocateDB.conf
    gen,        \* the load_dirs generator: where it stands and its limit
    yielded,    \* the DirEntry last yielded by load_dirs
    src,        \* history: what the file was written from, and the reads
    nyield,     \* history: number of blocks yielded so far
    sd,         \* the last safe_decode call: arguments, result, diagnostics
    dblk,       \* a DirBlock and its last match_contents call
    tr,         \* a Tree (tree.py) and its last load call
    qry,        \* a query (find or tree) in progress: arguments and output
    dol         \* a DictOfLists used alone, and the calls made on it

dupvars == <<stack, on_pop, tree, rtree, by_ck, pc, d, banner, printed,
             calls, pops, sel, ndirs>>

qvars == <<sd, dblk, tr, qry, dol>>

decvars == <<db, pos, header, conf, gen, yielded, src, nyield, qvars>>

vars == <<dupvars, decvars>>

(***************************************************************************)
(* Bounds of the model.                                                    *)
(***************************************************************************)
MaxDirs == 7
MaxOps == 4
MaxBlocks == 2
MaxLoads == 2

\* The directories of the database, as lists of segments below "/":
\* /a, /b, /c, /a/a, /a/b, /b/a, /b/b and /c/a.
DirSegs ==
    {<<<<97>>>>, <<<<98>>>>, <<<<99>>>>,
     <<<<97>>, <<97>>>>, <<<<97>>, <<98>>>>,
     <<<<98>>, <<97>>>>, <<<<98>>, <<98>>>>,
     <<<<99>>, <<97>>>>}

\* Entry lists a directory block may carry: [] and [(False, b'f')], and
\* below the first level also [(True, b'd'), (False, b'f')].
TopContents == {<< >>, << <<FALSE, <<102>>>> >>}
SubContents ==
    TopContents \cup {<< <<TRUE, <<100>>>>, <<FALSE, <<102>>>> >>}
ContentsChoices(segs) == IF Len(segs) = 1 THEN TopContents ELSE SubContents

\* Entry lists given to sum_contents on a DirHashStack used alone: those of
\* SubContents and [(False, b'f'), (True, b'd')]
SumContents ==
    SubContents \cup {<< <<FALSE, <<102>>>>, <<TRUE, <<100>>>> >>}

(***************************************************************************)
(* Byte strings.                                                           *)
(***************************************************************************)
\* os.sep.encode()
sep == <<47>>

\* bytes.split(sep) for the one-byte separator
RECURSIVE split(_)
split(b) ==
    IF \A i \in 1..Len(b) : b[i] # sep[1]
    THEN <<b>>
    ELSE LET i == CHOOSE k \in 1..Len(b) :
                      b[k] = sep[1] /\ \A j \in 1..(k - 1) : b[j] # sep[1]
         IN  <<SubSeq(b, 1, i - 1)>> \o split(SubSeq(b, i + 1, Len(b)))

\* sep.join(segments)
RECURSIVE join(_)
join(segs) ==
    IF segs = << >> THEN << >>
    ELSE IF Len(segs) = 1 THEN segs[1]
    ELSE segs[1] \o sep \o join(Tail(segs))

\* Python's order on bytes: lexicographic, a proper prefix first.
RECURSIVE BytesLess(_, _)
BytesLess(a, b) ==
    IF b = << >> THEN FALSE
    ELSE IF a = << >> THEN TRUE
    ELSE IF a[1] # b[1] THEN a[1] < b[1]
    ELSE BytesLess(Tail(a), Tail(b))

\* The order of the directory stream on lists of segments: a parent before
\* its descendants, siblings in ascending order.
RECURSIVE SegsLess(_, _)
SegsLess(s, t) ==
    IF t = << >> THEN FALSE
    ELSE IF s = << >> THEN TRUE
    ELSE IF s[1] # t[1] THEN BytesLess(s[1], t[1])
    ELSE SegsLess(Tail(s), Tail(t))

\* repr() of an entries list, as the bytes of its UTF-8 encoding:
\* [(False, b'f'), (True, b'a')]
repr_bool(f) == IF f THEN <<84, 114, 117, 101>> ELSE <<70, 97, 108, 115, 101>>
repr_bytes(n) == <<98, 39>> \o n \o <<39>>
repr_entry(e) ==
    <<40>> \o repr_bool(e[1]) \o <<44, 32>> \o repr_bytes(e[2]) \o <<41>>
RECURSIVE repr_items(_)
repr_items(c) ==
    IF c = << >> THEN << >>
    ELSE IF Len(c) = 1 THEN repr_entry(c[1])
    ELSE repr_entry(c[1]) \o <<44, 32>> \o repr_items(Tail(c))
repr(contents) == <<91>> \o repr_items(contents) \o <<93>>

(***************************************************************************)
(* hashlib.sha256: the state is what has been absorbed.                    *)
(***************************************************************************)
sha256(data) == data
update(h, chunk) == h \o chunk
hexdigest(h) == [sha256 |-> h]

INITIAL_CK == hexdigest(sha256(<< >>))
EMPTY_DIR_CK == hexdigest(sha256(<<91, 93>>))

(***************************************************************************)
(* DictOfLists: an ordered dictionary of lists, as the list of its items.  *)
(***************************************************************************)
has_key(dl, key) == \E i \in 1..Len(dl) : dl[i].key = key

\* A variant that puts the value at the head of the list of its key.
add_to_head(dl, key, value) ==
    IF has_key(dl, key)
    THEN [i \in 1..Len(dl) |->
             IF dl[i].key = key
             THEN [dl[i] EXCEPT !.val = <<value>> \o @]
             ELSE dl[i]]
    ELSE Append(dl, [key |-> key, val |-> <<value>>])

\* if key in self: self[key].append(value) else: self[key] = [value]
add_to(dl, key, value) ==
    IF has_key(dl, key)
    THEN [i \in 1..Len(dl) |->
             IF dl[i].key = key
             THEN [dl[i] EXCEPT !.val = Append(@, value)]
             ELSE dl[i]]
    ELSE Append(dl, [key |-> key, val |-> <<value>>])

getitem(dl, key) ==
    IF ~has_key(dl, key) THEN << >>
    ELSE dl[CHOOSE i \in 1..Len(dl) : dl[i].key = key].val

(***************************************************************************)
(* DirHashStack.  Its operations work on a record s holding the stack and  *)
(* what the observers reach: stack, on_pop, tree, by_ck, err (an exception *)
(* was raised), and the history: pops, npop, npush, now = Len(calls).      *)
(***************************************************************************)
level(stk) == Len(stk)

dir_names(stk) == [i \in 1..Len(stk) |-> stk[i].name]

get_checksums(stk) == [i \in 1..Len(stk) |-> hexdigest(stk[i].h)]

\* get_checksum(-1) is get_checksum_last; an empty stack raises IndexError
get_checksum(stk, lvl) == hexdigest(stk[lvl].h)

\* ck = hashlib.sha256(); self.stack.append((entry, ck))
\* A variant that seeds the digest state of a new element with its name.
new_element_seeded(entry, now) ==
    [name |-> entry, h |-> sha256(entry), since |-> now]

new_element(entry, now) == [name |-> entry, h |-> sha256(<< >>), since |-> now]

\* A variant in which a new element starts from the digest state of the
\* element below it.
push_copy(s, entry) ==
    [s EXCEPT !.stack = Append(@, IF s.stack = << >>
                                  THEN new_element(entry, s.now)
                                  ELSE [new_element(entry, s.now) EXCEPT
                                          !.h = s.stack[Len(s.stack)].h]),
              !.npush = @ + 1]

\* DirHashStack.push: self.stack.append((entry, hashlib.sha256()))
push(s, entry) ==
    [s EXCEPT !.stack = Append(@, new_element(entry, s.now)),
              !.npush = @ + 1]

\* A variant that indexes the path of what is left on the stack.
pop_handler_stack_path(s, name, ck) ==
    IF s.stack = << >>
    THEN [s EXCEPT !.err = TRUE]
    ELSE [s EXCEPT
            !.tree = add_to(@, get_checksum(s.stack, Len(s.stack)), ck),
            !.by_ck = add_to(@, ck, join(dir_names(s.stack)))]

\* App.pop_handler, called by pop after the element has left the stack
pop_handler(s, name, ck) ==
    IF s.stack = << >>
    THEN [s EXCEPT !.err = TRUE]
    ELSE [s EXCEPT
            !.tree = add_to(@, get_checksum(s.stack, Len(s.stack)), ck),
            !.by_ck = add_to(@, ck, join(dir_names(s.stack) \o <<name>>))]

pop(s) ==
    LET n == Len(s.stack)
        top == s.stack[n]
        ck == hexdigest(top.h)
        s1 == [s EXCEPT
                 !.stack = SubSeq(@, 1, n - 1),
                 !.npop = @ + 1,
                 !.pops = Append(@, [path |-> join(dir_names(s.stack)),
                                     ck |-> ck,
                                     since |-> top.since,
                                     until |-> s.now,
                                     depth |-> n - 1])]
    IN  IF s.on_pop THEN pop_handler(s1, top.name, ck) ELSE s1

RECURSIVE pushx(_, _)
pushx(s, entries) ==
    IF entries = << >> THEN s
    ELSE pushx(push(s, Head(entries)), Tail(entries))

RECURSIVE popx(_, _)
popx(s, n) ==
    IF n = 0 \/ s.err THEN s
    ELSE popx(pop(s), n - 1)

\* the loop of select that finds the common stem
\* A variant that keeps as many elements as it can without comparing names.
stem_no_compare(stk, l1, lvl) ==
    IF level(stk) < Len(l1) THEN level(stk) ELSE Len(l1)

RECURSIVE stem(_, _, _)
stem(stk, l1, lvl) ==
    IF lvl < level(stk) /\ lvl < Len(l1) /\ l1[lvl + 1] = stk[lvl + 1].name
    THEN stem(stk, l1, lvl + 1)
    ELSE lvl

\* A variant that empties the stack before it pushes the whole path.
select_reset(s, dirpath) ==
    LET l1 == split(dirpath)
        s1 == popx(s, level(s.stack))
    IN  IF s1.err THEN s1
        ELSE pushx(s1, l1)

\* DirHashStack.select(dirpath)
select(s, dirpath) ==
    LET l1 == split(dirpath)
        lvl == stem(s.stack, l1, 0)
        s1 == popx(s, level(s.stack) - lvl)
    IN  IF s1.err THEN s1
        ELSE pushx(s1, SubSeq(l1, lvl + 1, Len(l1)))

\* for a, h in self.stack: h.update(chunk)
\* A variant that updates the digest state of the last element only.
update_top(stk, chunk) ==
    [i \in 1..Len(stk) |->
        IF i = Len(stk) THEN [stk[i] EXCEPT !.h = update(@, chunk)]
        ELSE stk[i]]

update_all(stk, chunk) ==
    [i \in 1..Len(stk) |-> [stk[i] EXCEPT !.h = update(@, chunk)]]

chunk_of(path, contents) == repr(contents)

\* A variant whose digest is taken from the length of the chunk.
standalone_len(chunk) == hexdigest(sha256(<<Len(chunk)>>))

\* the value sum_contents returns: the digest of the chunk alone
standalone(chunk) == hexdigest(sha256(chunk))

\* The record the operations work on, from the variables.
State ==
    [stack |-> stack, on_pop |-> on_pop, tree |-> tree, by_ck |-> by_ck,
     err |-> FALSE, pops |-> pops, npop |-> 0, npush |-> 0,
     now |-> Len(calls)]

\* A call of select(dirpath) on the current state
DoSelect(dirpath) ==
    LET s == select(State, dirpath)
    IN  /\ stack' = s.stack
        /\ tree' = s.tree
        /\ by_ck' = s.by_ck
        /\ pops' = s.pops
        /\ sel' = [valid |-> TRUE, path |-> dirpath, before |-> stack,
                   after |-> s.stack, npop |-> s.npop, npush |-> s.npush,
                   err |-> s.err]

\* A call of sum_contents(contents) on the stack stk
DoSum(stk, path, contents) ==
    LET chunk == chunk_of(path, contents)
    IN  /\ stack' = update_all(stk, chunk)
        /\ calls' = Append(calls, [path |-> path, contents |-> contents,
                                   chunk |-> chunk, ret |-> standalone(chunk),
                                   levels |-> get_checksums(stk)])

(***************************************************************************)
(* mlocate.safe_decode: bytes to text.  UTF-8 sequences of one and two     *)
(* bytes are decoded; any other byte is invalid and, under                 *)
(* errors='backslashreplace', becomes the four characters \xHH.            *)
(***************************************************************************)
is_lead2(b) == b >= 194 /\ b <= 223
is_cont(b) == b >= 128 /\ b <= 191

hex_digit(n) == IF n < 10 THEN 48 + n ELSE 87 + n

backslash_escape(b) == <<92, 120, hex_digit(b \div 16), hex_digit(b % 16)>>

RECURSIVE valid_utf8(_)
valid_utf8(b) ==
    IF b = << >> THEN TRUE
    ELSE IF b[1] < 128 THEN valid_utf8(Tail(b))
    ELSE IF is_lead2(b[1]) /\ Len(b) >= 2 /\ is_cont(b[2])
         THEN valid_utf8(SubSeq(b, 3, Len(b)))
    ELSE FALSE

\* bname.decode(errors='backslashreplace'); without an invalid byte this is
\* bname.decode()
RECURSIVE decode_escaped(_)
decode_escaped(b) ==
    IF b = << >> THEN << >>
    ELSE IF b[1] < 128 THEN <<b[1]>> \o decode_escaped(Tail(b))
    ELSE IF is_lead2(b[1]) /\ Len(b) >= 2 /\ is_cont(b[2])
         THEN <<(b[1] - 192) * 64 + (b[2] - 128)>>
              \o decode_escaped(SubSeq(b, 3, Len(b)))
    ELSE backslash_escape(b[1]) \o decode_escaped(Tail(b))

\* A variant that decodes with errors='ignore': invalid bytes are dropped.
RECURSIVE safe_decode_ignore(_)
safe_decode_ignore(bname) ==
    IF bname = << >> THEN << >>
    ELSE IF bname[1] < 128
    THEN <<bname[1]>> \o safe_decode_ignore(Tail(bname))
    ELSE IF is_lead2(bname[1]) /\ Len(bname) >= 2 /\ is_cont(bname[2])
    THEN <<(bname[1] - 192) * 64 + (bname[2] - 128)>>
         \o safe_decode_ignore(SubSeq(bname, 3, Len(bname)))
    ELSE safe_decode_ignore(Tail(bname))

safe_decode(bname) == decode_escaped(bname)

\* the diagnostics safe_decode(data, prefix) logs, in order
safe_decode_log(data, prefix) ==
    IF valid_utf8(data) THEN << >>
    ELSE <<[msg |-> "Error decoding %r: %s", arg |-> data],
           [msg |-> "Entry parsed as %r", arg |-> prefix \o safe_decode(data)]>>

\* the number of warnings safe_decode logs
safe_decode_warnings(bname) == IF valid_utf8(bname) THEN 0 ELSE 2

(***************************************************************************)
(* App.report                                                              *)
(***************************************************************************)
\* for d in contents: self.rtree.add_to(d, ck)
RECURSIVE rtree_add_all(_, _, _)
rtree_add_all(rt, ck, contents) ==
    IF contents = << >> THEN rt
    ELSE rtree_add_all(add_to(rt, Head(contents), ck), ck, Tail(contents))

\* for ck, contents in self.tree.items(): ...
RECURSIVE build_rtree(_, _)
build_rtree(rt, items) ==
    IF items = << >> THEN rt
    ELSE build_rtree(rtree_add_all(rt, Head(items).key, Head(items).val),
                     Tail(items))

\* the condition of the list comprehension that selects the duplicates
\* A variant that does not set the empty directory's digest aside.
is_dup_any(ck, l) == Len(l) > 1

is_dup(ck, l) == ck # EMPTY_DIR_CK /\ Len(l) > 1

RECURSIVE dups_of(_)
dups_of(items) ==
    IF items = << >> THEN << >>
    ELSE (IF is_dup(Head(items).key, Head(items).val)
          THEN <<Head(items).key>> ELSE << >>) \o dups_of(Tail(items))

in_list(x, l) == \E i \in 1..Len(l) : l[i] = x

\* top = [p for p in parents if p not in dups]
RECURSIVE top_parents(_, _)
top_parents(parents, dups) ==
    IF parents = << >> THEN << >>
    ELSE (IF in_list(Head(parents), dups) THEN << >> ELSE <<Head(parents)>>)
         \o top_parents(Tail(parents), dups)

\* "sub" (skipped), "mix" or "top"
\* A variant that never classifies a set as top.
classify_no_top(parents, dups) ==
    IF top_parents(parents, dups) = << >> THEN "sub" ELSE "mix"

classify(parents, dups) ==
    LET top == top_parents(parents, dups)
    IN  IF top = << >> THEN "sub"
        ELSE IF Len(top) < Len(parents) THEN "mix"
        ELSE "top"

\* sorted(dirs)
RECURSIVE insert_sorted(_, _)
insert_sorted(x, l) ==
    IF l = << >> THEN <<x>>
    ELSE IF BytesLess(x, Head(l)) THEN <<x>> \o l
    ELSE <<Head(l)>> \o insert_sorted(x, Tail(l))

RECURSIVE sorted(_)
sorted(l) ==
    IF l = << >> THEN << >>
    ELSE insert_sorted(l[Len(l)], sorted(SubSeq(l, 1, Len(l) - 1)))

\* what is printed for one duplicate set
print_set(ck, typ, dirs) ==
    [ck |-> ck, n |-> Len(dirs), typ |-> typ,
     dirs |-> [i \in 1..Len(dirs) |-> safe_decode(sorted(dirs)[i])]]

\* for ck in dups: ...
RECURSIVE report_sets(_, _, _, _)
report_sets(todo, dups, rt, byck) ==
    IF todo = << >> THEN << >>
    ELSE LET ck == Head(todo)
             typ == classify(getitem(rt, ck), dups)
         IN  (IF typ = "sub" THEN << >>
              ELSE <<print_set(ck, typ, getitem(byck, ck))>>)
             \o report_sets(Tail(todo), dups, rt, byck)

(***************************************************************************)
(* The mlocate database file.  The program only reads it; the operators    *)
(* below write the files the decoder is run on, in the layout _read_header,*)
(* _read_conf and load_dirs read.                                          *)
(***************************************************************************)
\* b"\0mlocate"
magic == <<0, 109, 108, 111, 99, 97, 116, 101>>

\* n bytes, big-endian, of a natural number
RECURSIVE be_bytes(_, _)
be_bytes(v, n) ==
    IF n = 0 THEN << >> ELSE be_bytes(v \div 256, n - 1) \o <<v % 256>>

cstring(b) == b \o <<0>>

RECURSIVE encode_entries(_)
encode_entries(es) ==
    IF es = << >> THEN <<2>>
    ELSE <<IF es[1][1] THEN 1 ELSE 0>> \o cstring(es[1][2])
         \o encode_entries(Tail(es))

encode_dir(blk) ==
    be_bytes(blk.seconds, 8) \o be_bytes(blk.nanos, 4) \o <<0, 0, 0, 0>>
    \o cstring(blk.bname) \o encode_entries(blk.contents)

RECURSIVE encode_dirs(_)
encode_dirs(blks) ==
    IF blks = << >> THEN << >>
    ELSE encode_dir(blks[1]) \o encode_dirs(Tail(blks))

encode_header(f) ==
    magic \o be_bytes(Len(f.conf), 4) \o <<0, f.visibility, 0, 0>>
    \o cstring(f.root) \o f.conf

\* The directory blocks a file may hold: /r with a subdirectory and a
\* file, /r/a empty, /r/b with one file, /r/c empty with a nanoseconds
\* field half a microsecond below one second.
BlockChoices ==
    {[seconds |-> 5, nanos |-> 817771000, bname |-> <<47, 114>>,
      contents |-> << <<TRUE, <<97>>>>, <<FALSE, <<102>>>> >>],
     [seconds |-> 70000, nanos |-> 0, bname |-> <<47, 114, 47, 97>>,
      contents |-> << >>],
     [seconds |-> 6, nanos |-> 1499, bname |-> <<47, 114, 47, 98>>,
      contents |-> << <<FALSE, <<103, 104>>>> >>],
     [seconds |-> 7, nanos |-> 999999500, bname |-> <<47, 114, 47, 99>>,
      contents |-> << >>]}

RECURSIVE SeqsUpTo(_, _)
SeqsUpTo(S, n) ==
    IF n = 0 THEN {<< >>}
    ELSE LET shorter == SeqsUpTo(S, n - 1)
         IN  shorter \cup {Append(s, x) : s \in shorter, x \in S}

\* the configuration blocks: empty, and prune_bind_mounts=1 then an empty
\* group (b'p\x001\x00\x00\x00')
ConfChoices == {<< >>, <<112, 0, 49, 0, 0, 0>>}

\* What a file is written from: root, configuration block, directory
\* blocks, and the number of bytes of the directory stream that are kept
\* (a shorter file is a truncated one).
FileChoices ==
    UNION {{[root |-> <<47, 114>>, visibility |-> 1, conf |-> c,
             dirs |-> ds, keep |-> k] :
               c \in ConfChoices, k \in 0..Len(encode_dirs(ds))} :
           ds \in SeqsUpTo(BlockChoices, MaxBlocks)}

file_bytes(f) ==
    LET full == encode_header(f) \o encode_dirs(f.dirs)
    IN  SubSeq(full, 1, Len(encode_header(f)) + f.keep)

(***************************************************************************)
(* mlocate.py: reading.  A reader state is the file and the cursor.        *)
(***************************************************************************)
\* the 31-bit stand-in of sys.maxsize
sys_maxsize == 2147483647

min(a, b) == IF a < b THEN a ELSE b

\* f.read(n): up to n bytes from the cursor, all the rest when n < 0
read(file, at, n) ==
    IF n < 0 THEN SubSeq(file, at + 1, Len(file))
    ELSE SubSeq(file, at + 1, min(at + n, Len(file)))

\* struct.unpack of a big-endian unsigned field
RECURSIVE be_uint(_)
be_uint(b) ==
    IF b = << >> THEN 0
    ELSE be_uint(SubSeq(b, 1, Len(b) - 1)) * 256 + b[Len(b)]

\* read_cstring from the cursor: [buf, pos, hang]; at the end of the file
\* f.read(1) returns b'' for ever and the loop never ends (hang)
read_cstring(file, at) ==
    IF \E i \in (at + 1)..Len(file) : file[i] = 0
    THEN LET i == CHOOSE k \in (at + 1)..Len(file) :
                      file[k] = 0 /\ \A j \in (at + 1)..(k - 1) : file[j] # 0
         IN  [buf |-> SubSeq(file, at + 1, i - 1), pos |-> i, hang |-> FALSE]
    ELSE [buf |-> SubSeq(file, at + 1, Len(file)), pos |-> Len(file),
          hang |-> TRUE]

\* A variant that leaves the entries of a block unread at the yield.
read_direntries_lazy(file, at, acc) ==
    [contents |-> acc, pos |-> at, status |-> "ok"]

\* A variant that collects the entries in the reverse order.
RECURSIVE read_direntries_rev(_, _, _)
read_direntries_rev(file, at, acc) ==
    IF at >= Len(file)
    THEN [contents |-> acc, pos |-> at, status |-> "error"]
    ELSE IF file[at + 1] = 2
    THEN [contents |-> acc, pos |-> at + 1, status |-> "ok"]
    ELSE LET name == read_cstring(file, at + 1)
         IN  IF name.hang
             THEN [contents |-> acc, pos |-> name.pos, status |-> "hang"]
             ELSE read_direntries_rev(file, name.pos,
                      <<<<file[at + 1] # 0, name.buf>>>> \o acc)

\* [t for t in iter(self._read_direntry, None)]: [contents, pos, status],
\* status "ok", "error" (struct.error on an empty read) or "hang"
RECURSIVE read_direntries(_, _, _)
read_direntries(file, at, acc) ==
    IF at >= Len(file)
    THEN [contents |-> acc, pos |-> at, status |-> "error"]
    ELSE LET flag == file[at + 1]
         IN  IF flag = 2
             THEN [contents |-> acc, pos |-> at + 1, status |-> "ok"]
             ELSE LET name == read_cstring(file, at + 1)
                  IN  IF name.hang
                      THEN [contents |-> acc, pos |-> name.pos,
                            status |-> "hang"]
                      ELSE read_direntries(file, name.pos,
                               Append(acc, <<flag # 0, name.buf>>))

\* round(dir_nanos / 1000): Python rounds a half to the even neighbour
round_div_1000(n) ==
    LET q == n \div 1000
        r == n % 1000
    IN  IF r < 500 THEN q
        ELSE IF r > 500 THEN q + 1
        ELSE IF q % 2 = 0 THEN q ELSE q + 1

\* datetime.fromtimestamp(s).replace(microsecond=us): ValueError unless
\* 0 <= us <= 999999
make_dt(seconds, nanos) ==
    LET us == round_div_1000(nanos)
    IN  [seconds |-> seconds, microsecond |-> us,
         ok |-> us >= 0 /\ us <= 999999]

NoHeader ==
    [conf_block_size |-> 0, file_format |-> 0, req_visibility |-> 0,
     root |-> << >>]

\* _read_header: [status, header, pos]
read_header(file) ==
    LET mg == read(file, 0, 8)
        rest == read(file, 8, 8)
        root == read_cstring(file, 16)
    IN  IF mg # magic \/ Len(rest) < 8
        THEN [status |-> "error", header |-> NoHeader,
              pos |-> Len(mg) + Len(rest)]
        ELSE IF root.hang
        THEN [status |-> "hang", header |-> NoHeader, pos |-> root.pos]
        ELSE [status |-> "ok",
              header |-> [conf_block_size |-> be_uint(SubSeq(rest, 1, 4)),
                          file_format |-> rest[5],
                          req_visibility |-> rest[6],
                          root |-> root.buf],
              pos |-> root.pos]

\* conf_block.split(b'\x00')
RECURSIVE split0(_)
split0(b) ==
    IF \A i \in 1..Len(b) : b[i] # 0
    THEN <<b>>
    ELSE LET i == CHOOSE k \in 1..Len(b) :
                      b[k] = 0 /\ \A j \in 1..(k - 1) : b[j] # 0
         IN  <<SubSeq(b, 1, i - 1)>> \o split0(SubSeq(b, i + 1, Len(b)))

\* the loop of _read_conf over the pieces: the groups closed so far, as the
\* list of (key, values) in the order they were closed
RECURSIVE conf_groups(_, _, _)
conf_groups(pieces, grp, acc) ==
    IF pieces = << >> THEN acc
    ELSE IF Head(pieces) = << >>
    THEN IF Len(grp) > 0
         THEN conf_groups(Tail(pieces), << >>,
                          Append(acc, [key |-> grp[1], val |-> Tail(grp)]))
         ELSE conf_groups(Tail(pieces), grp, acc)
    ELSE conf_groups(Tail(pieces), Append(grp, Head(pieces)), acc)

\* _read_conf after _read_header at cursor `at`: [conf, pos]
read_conf(file, at, size) ==
    LET conf_block == read(file, at, size)
    IN  [conf |-> conf_groups(split0(conf_block), << >>, << >>),
         pos |-> at + Len(conf_block)]

NoEntry == [bname |-> << >>, dt |-> make_dt(0, 0), contents |-> << >>]

\* One turn of the loop of load_dirs from the cursor `at`: [status, entry,
\* pos, buflen]; status "yield", "stop" (the short read breaks the loop),
\* "error" (an exception leaves the generator) or "hang"
load_dir(file, at) ==
    LET buf == read(file, at, 16)
        none == NoEntry
    IN  IF Len(buf) < 16
        THEN [status |-> "stop", entry |-> none, pos |-> at + Len(buf),
              buflen |-> Len(buf)]
        ELSE LET dir_seconds == be_uint(SubSeq(buf, 1, 8))
                 dir_nanos == be_uint(SubSeq(buf, 9, 12))
                 bname == read_cstring(file, at + 16)
                 dt == make_dt(dir_seconds, dir_nanos)
                 ents == read_direntries(file, bname.pos, << >>)
             IN  IF bname.hang
                 THEN [status |-> "hang", entry |-> none, pos |-> bname.pos,
                       buflen |-> 16]
                 ELSE IF ~dt.ok
                 THEN [status |-> "error", entry |-> none, pos |-> bname.pos,
                       buflen |-> 16]
                 ELSE IF ents.status # "ok"
                 THEN [status |-> ents.status, entry |-> none,
                       pos |-> ents.pos, buflen |-> 16]
                 ELSE [status |-> "yield",
                       entry |-> [bname |-> bname.buf, dt |-> dt,
                                  contents |-> ents.contents],
                       pos |-> ents.pos, buflen |-> 16]

(***************************************************************************)
(* MLocateDB driven by a consumer: connect, load_dirs(limit), and the      *)
(* consumer asking the generator for its next element.                     *)
(***************************************************************************)
LimitChoices == {0, 1, 2}

NoFile == [root |-> << >>, visibility |-> 0, conf |-> << >>, dirs |-> << >>,
           keep |-> 0]

\* limit0 is the limit load_dirs was called with and base the number of
\* blocks yielded before the call (history)
NoGen == [state |-> "closed", limit |-> 0, buflen |-> 16, ncalls |-> 0,
          limit0 |-> 0, base |-> 0]

NoDecode == [called |-> FALSE, data |-> << >>, prefix |-> << >>,
             text |-> << >>, log |-> << >>]

\* Python's None, and a value that is not None
None == [none |-> TRUE, val |-> << >>]
Some(v) == [none |-> FALSE, val |-> v]

NoDirBlock == [bname |-> << >>, contents |-> << >>, selection |-> None,
               called |-> FALSE, selectors |-> << >>, limit |-> 0,
               result |-> << >>, scanned |-> 0, before |-> << >>]

\* Tree(root); called, path, ret, before and loads are the history of the
\* load calls: the last call, the Tree before it, the paths loaded so far
NoTree == [root |-> << >>, rel_path |-> << >>, stack |-> << >>,
           tree |-> << >>, called |-> FALSE, path |-> << >>, ret |-> None,
           before |-> [rel_path |-> << >>, stack |-> << >>, tree |-> << >>],
           loads |-> << >>]

NoQuery == [pc |-> "idle", selectors |-> << >>, limit_input_dirs |-> 0,
            limit_output_dirs |-> 0, limit_output_match |-> 0, levels |-> 0,
            action |-> "", count |-> 0, out |-> << >>, seen |-> << >>,
            has_tree |-> FALSE, dry_run |-> FALSE, command |-> ""]

\* DictOfLists(): items is the dictionary as the list of its items in
\* insertion order; adds is the history of the add_to calls, and called,
\* key, ret, before, after that of the last coll[key]
NoDict == [items |-> << >>, adds |-> << >>, called |-> FALSE, key |-> "",
           ret |-> << >>, before |-> << >>, after |-> << >>]

\* no safe_decode call, no DirBlock, no Tree and no query yet
QueryIdle ==
    /\ sd = NoDecode
    /\ dol = NoDict
    /\ dblk = NoDirBlock
    /\ tr = NoTree
    /\ qry = NoQuery

\* MLocateDB.__init__, before any file is opened
DecoderIdle ==
    /\ db = << >>
    /\ pos = 0
    /\ header = NoHeader
    /\ conf = << >>
    /\ gen = NoGen
    /\ yielded = NoEntry
    /\ nyield = 0
    /\ QueryIdle

NoSelect == [valid |-> FALSE, path |-> << >>, before |-> << >>,
             after |-> << >>, npop |-> 0, npush |-> 0, err |-> FALSE]

\* App.__init__ with a DirHashStack that has no directory yet
DupsIdle(run_state, observer) ==
    /\ stack = << >>
    /\ on_pop = observer
    /\ tree = << >>
    /\ rtree = << >>
    /\ by_ck = << >>
    /\ pc = run_state
    /\ d = [bname |-> << >>, contents |-> << >>]
    /\ banner = ""
    /\ printed = << >>
    /\ calls = << >>
    /\ pops = << >>
    /\ sel = NoSelect
    /\ ndirs = 0

InitDecoder ==
    /\ DupsIdle("idle", FALSE)
    /\ DecoderIdle
    /\ src \in FileChoices

\* connect(path): open, _read_header, _read_conf
Connect ==
    /\ gen.state = "closed"
    /\ LET file == file_bytes(src)
           h == read_header(file)
           c == read_conf(file, h.pos, h.header.conf_block_size)
       IN  /\ db' = file
           /\ header' = h.header
           /\ IF h.status = "ok"
              THEN /\ conf' = c.conf
                   /\ pos' = c.pos
                   /\ gen' = [gen EXCEPT !.state = "connected"]
              ELSE /\ conf' = conf
                   /\ pos' = h.pos
                   /\ gen' = [gen EXCEPT !.state = h.status]
    /\ UNCHANGED <<yielded, src, nyield, qvars, dupvars>>

\* A variant in which a limit of 0 is not replaced by sys.maxsize.
limit_of_plain(limit) == limit

\* if (limit==0): limit = sys.maxsize
limit_of(limit) == IF limit = 0 THEN sys_maxsize ELSE limit

\* the generator load_dirs(limit) returns
new_generator(limit) ==
    [gen EXCEPT !.state = "new", !.limit = limit_of(limit),
                !.ncalls = @ + 1, !.limit0 = limit, !.base = nyield]

\* load_dirs(limit): a new generator; its body has not started
LoadDirs ==
    /\ gen.state \in {"connected", "new", "suspended", "done"}
    /\ gen.ncalls < MaxLoads
    /\ \E limit \in LimitChoices : gen' = new_generator(limit)
    /\ UNCHANGED <<db, pos, header, conf, yielded, src, nyield, qvars,
                   dupvars>>

\* next() on the generator: the loop of load_dirs up to its next yield
GenNext ==
    /\ gen.state \in {"new", "suspended"}
    /\ IF gen.limit = 0
       THEN /\ gen' = [gen EXCEPT !.state = "done"]
            /\ UNCHANGED <<pos, yielded, nyield>>
       ELSE LET r == load_dir(db, pos)
            IN  /\ pos' = r.pos
                /\ gen' = [gen EXCEPT
                             !.limit = @ - 1,
                             !.buflen = r.buflen,
                             !.state = CASE r.status = "yield" -> "suspended"
                                         [] r.status = "stop" -> "done"
                                         [] OTHER -> r.status]
                /\ yielded' = IF r.status = "yield" THEN r.entry ELSE yielded
                /\ nyield' = IF r.status = "yield" THEN nyield + 1 ELSE nyield

\* a consumer that does nothing with the blocks
NextDir ==
    /\ GenNext
    /\ UNCHANGED <<db, header, conf, src, qvars, dupvars>>

NextDecoder == Connect \/ LoadDirs \/ NextDir

SpecDecoder == InitDecoder /\ [][NextDecoder]_vars

(***************************************************************************)
(* The dups run: App.run                                                   *)
(***************************************************************************)
path_of(segs) == join(<< << >> >> \o segs)

\* The blocks load_dirs may yield next: the stream is in depth-first order,
\* and the blocks match_path rejects are passed over.
NextBlocks ==
    UNION {{[bname |-> path_of(segs), contents |-> c] :
               c \in ContentsChoices(segs)} :
           segs \in {x \in DirSegs :
                       d.bname = << >>
                       \/ SegsLess(split(d.bname), split(path_of(x)))}}

Init ==
    /\ DupsIdle("run", TRUE)
    /\ DecoderIdle
    /\ src = NoFile

\* One turn of the loop of App.run on a block that match_path accepts:
\* process_dir(d) is select(d.bname) then sum_contents(d.contents).
ProcessDir ==
    /\ pc = "run"
    /\ ndirs < MaxDirs
    /\ \E blk \in NextBlocks :
          LET s == select(State, blk.bname)
          IN  /\ d' = blk
              /\ tree' = s.tree
              /\ by_ck' = s.by_ck
              /\ pops' = s.pops
              /\ sel' = [valid |-> TRUE, path |-> blk.bname,
                         before |-> stack, after |-> s.stack,
                         npop |-> s.npop, npush |-> s.npush, err |-> s.err]
              /\ IF s.err
                 THEN /\ pc' = "crashed"
                      /\ stack' = s.stack
                      /\ calls' = calls
                 ELSE /\ pc' = "run"
                      /\ DoSum(s.stack, blk.bname, blk.contents)
    /\ ndirs' = ndirs + 1
    /\ UNCHANGED <<on_pop, rtree, banner, printed, decvars>>

\* The stream has ended: App.run calls report.
Report ==
    /\ pc = "run"
    /\ LET rt == build_rtree(rtree, tree)
           dups == dups_of(by_ck)
       IN  /\ rtree' = rt
           /\ IF dups = << >>
              THEN /\ banner' = "No duplicate found"
                   /\ printed' = << >>
              ELSE /\ banner' = "Reporting Duplicates "
                   /\ printed' = report_sets(dups, dups, rt, by_ck)
    /\ pc' = "done"
    /\ UNCHANGED <<stack, on_pop, tree, by_ck, d, calls, pops, sel, ndirs,
                   decvars>>

Next == ProcessDir \/ Report

Spec == Init /\ [][Next]_vars

(***************************************************************************)
(* A DirHashStack used alone, as DirHashStack() builds it (no observers):  *)
(* any sequence of select and sum_contents calls.                          *)
(***************************************************************************)
\* b'/a', b'/a/b', b'/b', b'/b/b', b'a/b', b'/' and b''
SelectPaths ==
    {<<47, 97>>, <<47, 97, 47, 98>>, <<47, 98>>, <<47, 98, 47, 98>>,
     <<97, 47, 98>>, <<47>>, << >>}

InitStack ==
    /\ DupsIdle("stack", FALSE)
    /\ DecoderIdle
    /\ src = NoFile

StackSelect ==
    /\ pc = "stack"
    /\ ndirs < MaxOps
    /\ \E dirpath \in SelectPaths : DoSelect(dirpath)
    /\ ndirs' = ndirs + 1
    /\ UNCHANGED <<on_pop, rtree, pc, d, banner, printed, calls, decvars>>

StackSum ==
    /\ pc = "stack"
    /\ ndirs < MaxOps
    /\ \E c \in SumContents : DoSum(stack, << >>, c)
    /\ ndirs' = ndirs + 1
    /\ UNCHANGED <<on_pop, tree, rtree, by_ck, pc, d, banner, printed, pops,
                   sel, decvars>>

NextStack == StackSelect \/ StackSum

SpecStack == InitStack /\ [][NextStack]_vars


(***************************************************************************)
(* dict_of_lists.py: a DictOfLists used alone                              *)
(***************************************************************************)
MaxAdds == 3

DictKeys == {"a", "d", "e"}
DictValues == {"b", "c"}

InitDict ==
    /\ DupsIdle("dict", FALSE)
    /\ DecoderIdle
    /\ src = NoFile

\* coll.add_to(key, value)
DictAddTo ==
    /\ pc = "dict"
    /\ Len(dol.adds) < MaxAdds
    /\ \E key \in DictKeys, value \in DictValues :
          dol' = [dol EXCEPT
                    !.items = add_to(@, key, value),
                    !.adds = Append(@, [key |-> key, value |-> value])]
    /\ UNCHANGED <<dupvars, db, pos, header, conf, gen, yielded, src, nyield,
                   sd, dblk, tr, qry>>

\* coll[key]
DictGetItem ==
    /\ pc = "dict"
    /\ \E key \in DictKeys :
          dol' = [dol EXCEPT !.called = TRUE,
                             !.key = key,
                             !.ret = getitem(dol.items, key),
                             !.before = dol.items,
                             !.after = dol.items]
    /\ UNCHANGED <<dupvars, db, pos, header, conf, gen, yielded, src, nyield,
                   sd, dblk, tr, qry>>

NextDict == DictAddTo \/ DictGetItem

SpecDict == InitDict /\ [][NextDict]_vars

(***************************************************************************)
(* dirblock.py: DirBlock.match_contents.  A compiled selector is modelled  *)
(* by the set of names its match() accepts.                                *)
(***************************************************************************)
\* A variant without the break: one copy of the entry per accepting selector.
RECURSIVE match_entry_all(_, _)
match_entry_all(e, selectors) ==
    IF selectors = << >> THEN << >>
    ELSE (IF e[2] \in Head(selectors) THEN <<e>> ELSE << >>)
         \o match_entry_all(e, Tail(selectors))

\* for s in selectors: if s.match(name): rslts.append(e); break
RECURSIVE match_entry(_, _)
match_entry(e, selectors) ==
    IF selectors = << >> THEN << >>
    ELSE IF e[2] \in Head(selectors) THEN <<e>>
    ELSE match_entry(e, Tail(selectors))

\* the loop over self.contents from entry i on: [result, scanned], scanned
\* the number of entries tested
RECURSIVE match_loop(_, _, _, _, _)
match_loop(contents, i, selectors, limit, rslts) ==
    IF i > Len(contents) THEN [result |-> rslts, scanned |-> Len(contents)]
    ELSE LET r == rslts \o match_entry(contents[i], selectors)
         IN  IF limit # 0 /\ limit <= Len(r)
             THEN [result |-> r, scanned |-> i]
             ELSE match_loop(contents, i + 1, selectors, limit, r)

match_contents(contents, selectors, limit) ==
    match_loop(contents, 1, selectors, limit, << >>)

MaxEntries == 3
MaxSelectors == 2

\* (False, b'a'), (True, b'b'), (False, b'c')
EntryChoices == {<<FALSE, <<97>>>>, <<TRUE, <<98>>>>, <<FALSE, <<99>>>>}

\* selectors accepting a, a or b, c
SelectorChoices == {{<<97>>}, {<<97>>, <<98>>}, {<<99>>}}

MatchLimits == {0, 1, 2}

InitMatch ==
    /\ DupsIdle("match", FALSE)
    /\ db = << >>
    /\ pos = 0
    /\ header = NoHeader
    /\ conf = << >>
    /\ gen = NoGen
    /\ yielded = NoEntry
    /\ nyield = 0
    /\ src = NoFile
    /\ sd = NoDecode
    /\ dol = NoDict
    /\ tr = NoTree
    /\ qry = NoQuery
    /\ \E c \in SeqsUpTo(EntryChoices, MaxEntries) :
          dblk = [NoDirBlock EXCEPT !.bname = <<47, 114>>, !.contents = c]

\* d.match_contents(selectors, limit)
MatchContents ==
    /\ pc = "match"
    /\ \E selectors \in SeqsUpTo(SelectorChoices, MaxSelectors),
          limit \in MatchLimits :
          LET m == match_contents(dblk.contents, selectors, limit)
          IN  dblk' = [dblk EXCEPT !.selection = Some(m.result),
                                   !.called = TRUE,
                                   !.selectors = selectors,
                                   !.limit = limit,
                                   !.result = m.result,
                                   !.scanned = m.scanned,
                                   !.before = dblk.contents]
    /\ UNCHANGED <<dupvars, db, pos, header, conf, gen, yielded, src, nyield,
                   sd, dol, tr, qry>>

NextMatch == MatchContents

SpecMatch == InitMatch /\ [][NextMatch]_vars

(***************************************************************************)
(* tree.py: Tree.  The tree is a list of nodes [name, children], children  *)
(* a list of nodes; the cursor stack holds the names from the root to the  *)
(* node last loaded.                                                       *)
(***************************************************************************)
\* A variant that compares the first byte only.
startswith_first(b, prefix) ==
    prefix = << >> \/ (b # << >> /\ b[1] = prefix[1])

\* bytes.startswith
startswith(b, prefix) ==
    Len(prefix) <= Len(b) /\ SubSeq(b, 1, Len(prefix)) = prefix

\* A variant that keeps nothing of the cursor stack.
tree_common_none(nodes, stk, p) == 0

\* the loop of Tree.load that counts the leading nodes equal to the stack
RECURSIVE tree_common(_, _, _)
tree_common(nodes, stk, p) ==
    IF p < min(Len(nodes), Len(stk)) /\ nodes[p + 1] = stk[p + 1]
    THEN tree_common(nodes, stk, p + 1)
    ELSE p

\* Tree.push on the tree: tip = self.tree; depth times tip = tip[-1][1];
\* tip.append([node, []])
RECURSIVE tree_push(_, _, _)
tree_push(tree_, depth, node) ==
    IF depth = 0 THEN Append(tree_, <<node, << >>>>)
    ELSE [tree_ EXCEPT ![Len(tree_)] =
              <<@[1], tree_push(@[2], depth - 1, node)>>]

\* Tree.pushx: push each node
RECURSIVE tree_pushx(_, _)
tree_pushx(T, nodes) ==
    IF nodes = << >> THEN T
    ELSE tree_pushx([T EXCEPT !.tree = tree_push(@, Len(T.stack), Head(nodes)),
                              !.stack = Append(@, Head(nodes))],
                    Tail(nodes))

\* Tree.load(node_path) on the Tree T: the Tree after the call, with the
\* value returned in ret
tree_load(T, node_path) ==
    IF ~startswith(node_path, T.root) THEN [T EXCEPT !.ret = None]
    ELSE LET current == SubSeq(node_path, Len(T.root) + 1, Len(node_path))
             nodes == split(current)
             p2 == tree_common(nodes, T.stack, 0)
             popped == [T EXCEPT !.stack = SubSeq(@, 1, p2)]
             pushed == tree_pushx(popped, SubSeq(nodes, p2 + 1, Len(nodes)))
         IN  [pushed EXCEPT !.rel_path = current \o <<47>>,
                            !.ret = Some(current \o <<47>>)]

\* Tree(root)
new_tree(root) == [NoTree EXCEPT !.root = root]

MaxTreeLoads == 4

\* b'/r/' and b'/r'
RootChoices == {<<47, 114, 47>>, <<47, 114>>}

\* b'/r/a', b'/r/a/x', b'/r/a/y', b'/r/b', b'/r/b/x', b'/q/a', b'/r', b'/'
LoadPaths ==
    {<<47, 114, 47, 97>>, <<47, 114, 47, 97, 47, 120>>,
     <<47, 114, 47, 97, 47, 121>>, <<47, 114, 47, 98>>,
     <<47, 114, 47, 98, 47, 120>>, <<47, 113, 47, 97>>, <<47, 114>>, <<47>>}

InitTree ==
    /\ DupsIdle("tree", FALSE)
    /\ db = << >>
    /\ pos = 0
    /\ header = NoHeader
    /\ conf = << >>
    /\ gen = NoGen
    /\ yielded = NoEntry
    /\ nyield = 0
    /\ src = NoFile
    /\ sd = NoDecode
    /\ dol = NoDict
    /\ dblk = NoDirBlock
    /\ qry = NoQuery
    /\ \E root \in RootChoices : tr = new_tree(root)

\* o.load(node_path)
TreeLoad ==
    /\ pc = "tree"
    /\ Len(tr.loads) < MaxTreeLoads
    /\ \E node_path \in LoadPaths :
          tr' = [tree_load(tr, node_path) EXCEPT
                    !.called = TRUE,
                    !.path = node_path,
                    !.before = [rel_path |-> tr.rel_path, stack |-> tr.stack,
                                tree |-> tr.tree],
                    !.loads = Append(@, node_path)]
    /\ UNCHANGED <<dupvars, db, pos, header, conf, gen, yielded, src, nyield,
                   sd, dol, dblk, qry>>

NextTree == TreeLoad

SpecTree == InitTree /\ [][NextTree]_vars

(***************************************************************************)
(* The tree and find queries: cli.run connects the decoder and hands it    *)
(* to do_subtree or do_filter, which loop over load_dirs.  A compiled      *)
(* selector is the set of byte strings its match() accepts.                *)
(***************************************************************************)
\* The directory blocks of the databases the queries read, in depth-first
\* order: /r, /r/a, /r/a/x, /r/b, /r/b/x, /r/c, with entries named a, b,
\* c, x; /r/c was changed half a microsecond before the end of a second.
QueryBlocks ==
    <<[seconds |-> 5, nanos |-> 817771000, bname |-> <<47, 114>>,
       contents |-> << <<TRUE, <<97>>>>, <<TRUE, <<98>>>>,
                       <<FALSE, <<99>>>> >>],
      [seconds |-> 6, nanos |-> 0, bname |-> <<47, 114, 47, 97>>,
       contents |-> << <<FALSE, <<98>>>>, <<TRUE, <<120>>>> >>],
      [seconds |-> 7, nanos |-> 1499, bname |-> <<47, 114, 47, 97, 47, 120>>,
       contents |-> << >>],
      [seconds |-> 8, nanos |-> 0, bname |-> <<47, 114, 47, 98>>,
       contents |-> << <<FALSE, <<99>>>>, <<TRUE, <<120>>>> >>],
      [seconds |-> 9, nanos |-> 0, bname |-> <<47, 114, 47, 98, 47, 120>>,
       contents |-> << <<FALSE, <<97>>>> >>],
      [seconds |-> 7, nanos |-> 999999500, bname |-> <<47, 114, 47, 99>>,
       contents |-> << <<FALSE, <<97>>>> >>]>>

\* the place in QueryBlocks of the parent directory of each block
QueryParents == <<0, 1, 2, 1, 4, 1>>

\* the blocks of QueryBlocks at the places in S, in order
PickBlocks(S) ==
    LET F[i \in 0..Len(QueryBlocks)] ==
            IF i = 0 THEN << >>
            ELSE IF i \in S THEN Append(F[i - 1], QueryBlocks[i])
            ELSE F[i - 1]
    IN  F[Len(QueryBlocks)]

\* Complete databases of root /r: a directory is present only with its
\* parent (pruned subtrees are absent as a whole).
QueryFiles ==
    {[root |-> <<47, 114>>, visibility |-> 1, conf |-> << >>,
      dirs |-> PickBlocks(S), keep |-> Len(encode_dirs(PickBlocks(S)))] :
        S \in {T \in SUBSET (1..Len(QueryBlocks)) :
                  \A i \in T : QueryParents[i] = 0 \/ QueryParents[i] \in T}}

\* -M: limit_output_dirs; the input limit of load_dirs
OutputDirLimits == {0, 1, 2}
InputDirLimits == {0, 3}

\* cli.run before the query function is entered: the arguments are parsed,
\* the database is not opened yet
InitQuery(run_state, selectors, action) ==
    /\ DupsIdle(run_state, FALSE)
    /\ db = << >>
    /\ pos = 0
    /\ header = NoHeader
    /\ conf = << >>
    /\ gen = NoGen
    /\ yielded = NoEntry
    /\ nyield = 0
    /\ src \in QueryFiles
    /\ sd = NoDecode
    /\ dol = NoDict
    /\ dblk = NoDirBlock
    /\ tr = NoTree
    /\ \E li \in InputDirLimits, lo \in OutputDirLimits, lm \in MatchLimits :
          qry = [NoQuery EXCEPT !.pc = "start", !.selectors = selectors,
                                !.limit_input_dirs = li,
                                !.limit_output_dirs = lo,
                                !.limit_output_match =
                                    IF run_state = "find" THEN lm ELSE 0,
                                !.action = action]

\* mdb.connect(args.database) in cli.run
RunConnect ==
    LET file == file_bytes(src)
        h == read_header(file)
        c == read_conf(file, h.pos, h.header.conf_block_size)
    IN  /\ db' = file
        /\ header' = h.header
        /\ conf' = IF h.status = "ok" THEN c.conf ELSE conf
        /\ pos' = IF h.status = "ok" THEN c.pos ELSE h.pos

\* what the loop of a query does when next() on load_dirs gives no block:
\* the loop is over, or the exception leaves the query
after_loop(state) ==
    CASE state = "done" -> "done"
      [] state = "hang" -> "hang"
      [] OTHER -> "error"

(***************************************************************************)
(* subtree.py: do_subtree                                                  *)
(***************************************************************************)
\* DirBlock.match_path(selectors)
match_path(bname, selectors) ==
    \E i \in 1..Len(selectors) : bname \in selectors[i]

\* print_tree(tree, args.levels): the Tree rendered
print_tree(T, levels) ==
    [root |-> T.root, tree |-> T.tree, levels |-> levels]

\* A variant in which the output limit never ends the loop.
limit_ignored(q, count) == FALSE

\* the limit test after count += 1: TRUE when the loop is left
limit_reached(q, count) ==
    q.limit_output_dirs # 0 /\ count >= q.limit_output_dirs

\* The body of the for loop of do_subtree for the block blk, on the locals
\* q and the Tree T: [q, T] after it.
subtree_body(q, T, blk) ==
    LET name == safe_decode(blk.bname)
        seen == [q EXCEPT !.seen = Append(@, blk.bname)]
    IN  IF q.has_tree
        THEN LET loaded == tree_load(T, name)
             IN  IF ~loaded.ret.none
                 THEN [q |-> seen, T |-> loaded]
                 ELSE [q |-> [seen EXCEPT
                                !.out = Append(@, print_tree(T, q.levels)),
                                !.has_tree = FALSE,
                                !.count = @ + 1,
                                !.pc = IF limit_reached(q, q.count + 1)
                                       THEN "done" ELSE "loop"],
                       T |-> NoTree]
        ELSE IF match_path(blk.bname, q.selectors)
        THEN [q |-> [seen EXCEPT !.has_tree = TRUE],
              T |-> new_tree(name \o <<47>>)]
        ELSE [q |-> seen, T |-> T]

\* after the loop of do_subtree: if tree: print_tree(tree, args.levels)
subtree_end(q, T, state) ==
    [q |-> [q EXCEPT !.out = IF q.has_tree /\ state = "done"
                             THEN Append(@, print_tree(T, q.levels)) ELSE @,
                     !.pc = after_loop(state)],
     T |-> T]

\* paths accepted by: /r/?, */x, /r/b, /r
PathSelectorChoices ==
    {{<<47, 114, 47, 97>>, <<47, 114, 47, 98>>},
     {<<47, 114, 47, 97, 47, 120>>, <<47, 114, 47, 98, 47, 120>>},
     {<<47, 114, 47, 98>>},
     {<<47, 114>>}}

InitSubtree ==
    \E selectors \in SeqsUpTo(PathSelectorChoices, MaxSelectors) :
        InitQuery("subtree", selectors, "")

\* cli.run up to the for statement of do_subtree: connect, compile the
\* selectors, tree = None, count = 0, call load_dirs
SubtreeStart ==
    /\ pc = "subtree"
    /\ qry.pc = "start"
    /\ RunConnect
    /\ gen' = new_generator(qry.limit_input_dirs)
    /\ qry' = [qry EXCEPT !.pc = "loop"]
    /\ UNCHANGED <<yielded, src, nyield, sd, dol, dblk, tr, dupvars>>

\* one turn of the for loop of do_subtree: next() on load_dirs, then the
\* body, or the end of the loop and the statement after it
SubtreeTurn ==
    /\ pc = "subtree"
    /\ qry.pc = "loop"
    /\ GenNext
    /\ LET r == IF gen'.state = "suspended"
                THEN subtree_body(qry, tr, yielded')
                ELSE subtree_end(qry, tr, gen'.state)
       IN  /\ qry' = r.q
           /\ tr' = r.T
    /\ UNCHANGED <<db, header, conf, src, sd, dol, dblk, dupvars>>

NextSubtree == SubtreeStart \/ SubtreeTurn

SpecSubtree == InitSubtree /\ [][NextSubtree]_vars

(***************************************************************************)
(* find.py: do_filter                                                      *)
(***************************************************************************)
ActionChoices == {"test", "count", "list", "json"}

\* limit = 1 for the test action, else args.limit_output_match
match_limit(q) == IF q.action = "test" THEN 1 ELSE q.limit_output_match

\* the entries print_dir_list and print_dir_json write: flag and decoded name
RECURSIVE decoded_matches(_)
decoded_matches(r) ==
    IF r = << >> THEN << >>
    ELSE <<[is_dir |-> Head(r)[1], name |-> safe_decode(Head(r)[2])]>>
             \o decoded_matches(Tail(r))

\* actions[args.action](d, r): what is printed for the directory d
print_dir(action, blk, r) ==
    [kind |-> "dir", name |-> safe_decode(blk.bname), dt |-> blk.dt,
     nmatches |-> IF action = "count" THEN Len(r) ELSE 0,
     matches |-> IF action \in {"list", "json"} THEN decoded_matches(r)
                 ELSE << >>,
     r |-> r]

punct(text) ==
    [kind |-> text, name |-> << >>, dt |-> make_dt(0, 0), nmatches |-> 0,
     matches |-> << >>, r |-> << >>]

\* if args.action == 'json': print(text)
json_print(q, text) == IF q.action = "json" THEN <<punct(text)>> ELSE << >>

\* The body of the for loop of do_filter for the block blk: [q, D], D the
\* DirBlock after match_contents.
find_body(q, blk) ==
    LET m == match_contents(blk.contents, q.selectors, match_limit(q))
        r == m.result
        D == [NoDirBlock EXCEPT !.bname = blk.bname,
                                !.contents = blk.contents,
                                !.selection = Some(r)]
        seen == [q EXCEPT !.seen = Append(@, blk.bname)]
        left == limit_reached(q, q.count + 1)
    IN  IF r = << >> THEN [q |-> seen, D |-> D]
        ELSE [q |-> [seen EXCEPT
                       !.out = @ \o (IF q.count # 0 THEN json_print(q, ",")
                                     ELSE << >>)
                                 \o <<print_dir(q.action, blk, r)>>
                                 \o (IF left THEN json_print(q, "]")
                                     ELSE << >>),
                       !.count = @ + 1,
                       !.pc = IF left THEN "done" ELSE "loop"],
              D |-> D]

\* after the loop of do_filter: if args.action == 'json': print("]")
find_end(q, state) ==
    [q EXCEPT !.out = IF state = "done" THEN @ \o json_print(q, "]") ELSE @,
              !.pc = after_loop(state)]

InitFind ==
    \E selectors \in SeqsUpTo(SelectorChoices, MaxSelectors),
       action \in ActionChoices :
        InitQuery("find", selectors, action)

\* cli.run up to the for statement of do_filter: connect, compile the
\* selectors, count = 0, print("[") for json, call load_dirs
FindStart ==
    /\ pc = "find"
    /\ qry.pc = "start"
    /\ RunConnect
    /\ gen' = new_generator(qry.limit_input_dirs)
    /\ qry' = [qry EXCEPT !.pc = "loop", !.out = json_print(qry, "[")]
    /\ UNCHANGED <<yielded, src, nyield, sd, dol, dblk, tr, dupvars>>

\* one turn of the for loop of do_filter: next() on load_dirs, then the
\* body, or the end of the loop and the statement after it
FindTurn ==
    /\ pc = "find"
    /\ qry.pc = "loop"
    /\ GenNext
    /\ IF gen'.state = "suspended"
       THEN LET b == find_body(qry, yielded')
            IN  /\ qry' = b.q
                /\ dblk' = b.D
       ELSE /\ qry' = find_end(qry, gen'.state)
            /\ dblk' = dblk
    /\ UNCHANGED <<db, header, conf, src, sd, dol, tr, dupvars>>

NextFind == FindStart \/ FindTurn

SpecFind == InitFind /\ [][NextFind]_vars


(***************************************************************************)
(* cli.py: run(args), the driver of the three commands.  The dups command  *)
(* builds an App, whose run reads the database through a decoder of its    *)
(* own.                                                                    *)
(***************************************************************************)
CommandChoices == {"find", "dups", "tree"}

\* the database of all the blocks of QueryBlocks
FullFile ==
    [root |-> <<47, 114>>, visibility |-> 1, conf |-> << >>,
     dirs |-> QueryBlocks, keep |-> Len(encode_dirs(QueryBlocks))]

\* the parsed arguments: the command, -n, the patterns and the limits
InitCli ==
    /\ DupsIdle("cli", FALSE)
    /\ db = << >>
    /\ pos = 0
    /\ header = NoHeader
    /\ conf = << >>
    /\ gen = NoGen
    /\ yielded = NoEntry
    /\ nyield = 0
    /\ sd = NoDecode
    /\ dol = NoDict
    /\ dblk = NoDirBlock
    /\ tr = NoTree
    /\ \E command \in CommandChoices, dry_run \in BOOLEAN,
          li \in InputDirLimits, lo \in OutputDirLimits :
          /\ src \in IF command = "dups" THEN {FullFile} ELSE QueryFiles
          /\ qry = [NoQuery EXCEPT
                      !.pc = "start",
                      !.command = command,
                      !.dry_run = dry_run,
                      !.selectors =
                          CASE command = "find" -> <<{<<97>>, <<98>>}>>
                            [] command = "tree" ->
                                 <<{<<47, 114, 47, 97>>, <<47, 114, 47, 98>>}>>
                            [] OTHER -> << >>,
                      !.action = IF command = "find" THEN "json" ELSE "",
                      !.limit_input_dirs = IF command = "dups" THEN 0 ELSE li,
                      !.limit_output_dirs =
                          IF command = "dups" THEN 0 ELSE lo]

\* run(args): mdb.connect(args.database), then, if not args.dry_run, the
\* function of the command up to its loop (App(args) for dups)
CliRun ==
    /\ pc = "cli"
    /\ qry.pc = "start"
    /\ RunConnect
    /\ IF qry.dry_run
       THEN /\ pc' = "done"
            /\ gen' = [gen EXCEPT !.state = "connected"]
            /\ UNCHANGED <<qry, on_pop>>
       ELSE CASE qry.command = "find" ->
                   /\ pc' = "find"
                   /\ gen' = new_generator(qry.limit_input_dirs)
                   /\ qry' = [qry EXCEPT !.pc = "loop",
                                         !.out = json_print(qry, "[")]
                   /\ UNCHANGED on_pop
              [] qry.command = "tree" ->
                   /\ pc' = "subtree"
                   /\ gen' = new_generator(qry.limit_input_dirs)
                   /\ qry' = [qry EXCEPT !.pc = "loop"]
                   /\ UNCHANGED on_pop
              [] OTHER ->
                   /\ pc' = "run"
                   /\ gen' = [gen EXCEPT !.state = "connected"]
                   /\ on_pop' = TRUE
                   /\ qry' = [qry EXCEPT !.pc = "loop"]
    /\ UNCHANGED <<stack, tree, rtree, by_ck, d, banner, printed, calls, pops,
                   sel, ndirs, yielded, src, nyield, sd, dol, dblk, tr>>

NextCli == CliRun \/ FindTurn \/ SubtreeTurn \/ ProcessDir \/ Report

SpecCli == InitCli /\ [][NextCli]_vars

(***************************************************************************)
(* safe_decode called on its own.                                          *)
(***************************************************************************)
MaxBytes == 3

\* the bytes of the names: b'a', the two bytes of U+00E9 and 0xff; none
\* starts a sequence of three or four bytes
NameBytes == {97, 195, 169, 255}

\* the prefixes: '' and 'd/'
PrefixChoices == {<< >>, <<100, 47>>}

InitSafeDecode ==
    /\ DupsIdle("decode", FALSE)
    /\ DecoderIdle
    /\ src = NoFile

\* safe_decode(data, prefix)
SafeDecode ==
    /\ pc = "decode"
    /\ \E data \in SeqsUpTo(NameBytes, MaxBytes), prefix \in PrefixChoices :
          sd' = [called |-> TRUE, data |-> data, prefix |-> prefix,
                 text |-> safe_decode(data),
                 log |-> safe_decode_log(data, prefix)]
    /\ UNCHANGED <<dupvars, db, pos, header, conf, gen, yielded, src, nyield,
                   dblk, tr, qry, dol>>

NextSafeDecode == SafeDecode

SpecSafeDecode == InitSafeDecode /\ [][NextSafeDecode]_vars

(***************************************************************************)
(* Properties                                                              *)
(***************************************************************************)
IsPrefix(s, t) == Len(s) <= Len(t) /\ SubSeq(t, 1, Len(s)) = s

\* The blocks summed while the popped element e was on the stack, each
\* with its path relative to e: the recursive structure of the subtree.
RelStructure(e) ==
    [k \in 1..(e.until - e.since) |->
        LET c == calls[e.since + k]
        IN  [rel |-> SubSeq(split(c.path), e.depth + 2, Len(split(c.path))),
             contents |-> c.contents]]

\* C1: two popped subtrees with the same recursive structure (same blocks
\* at the same relative places, same entry lists, same order) were popped
\* with equal digests, whatever their root names and places in the stream.
C1_SameStructureSameDigest ==
    \A i, j \in 1..Len(pops) :
        RelStructure(pops[i]) = RelStructure(pops[j])
            => pops[i].ck = pops[j].ck

\* Two subtrees of two blocks each, under different roots, the second one
\* visited after other directories, popped with equal digests.
C1_Witness ==
    \E i, j \in 1..Len(pops) :
        /\ i < j
        /\ pops[j].since > 0
        /\ pops[i].path # pops[j].path
        /\ split(pops[i].path)[pops[i].depth + 1]
             # split(pops[j].path)[pops[j].depth + 1]
        /\ Len(RelStructure(pops[i])) = 2
        /\ RelStructure(pops[i]) = RelStructure(pops[j])
        /\ pops[i].ck = pops[j].ck

RECURSIVE ChunksBetween(_, _)
ChunksBetween(since, until) ==
    IF until <= since THEN << >>
    ELSE ChunksBetween(since, until - 1) \o calls[until].chunk

\* C2: the digest finalized at a pop is the hash of the concatenation, in
\* call order, of the chunks of the sum_contents calls made between the
\* element's push and its pop; with a single such call it is the digest
\* that call returned.
C2_PopDigestIsHashOfChunks ==
    \A i \in 1..Len(pops) :
        LET e == pops[i]
        IN  /\ e.ck = hexdigest(sha256(ChunksBetween(e.since, e.until)))
            /\ e.until = e.since + 1 => e.ck = calls[e.until].ret

\* An element popped after three blocks (its own and two descendants') and
\* one popped after its own block alone, pushed after earlier calls.
C2_Witness ==
    /\ \E i \in 1..Len(pops) :
          pops[i].since > 0 /\ pops[i].until = pops[i].since + 3
    /\ \E i \in 1..Len(pops) :
          pops[i].since > 0 /\ pops[i].until = pops[i].since + 1

LongestCommonPrefix(names, segs) ==
    CHOOSE k \in 0..Len(names) :
        /\ k <= Len(segs)
        /\ \A i \in 1..k : names[i] = segs[i]
        /\ ~(k < Len(names) /\ k < Len(segs) /\ names[k + 1] = segs[k + 1])

\* C3: after select(p) the segments on the stack are p split at the
\* separators (they join back to p and none holds a separator); the call
\* popped (old depth - L) elements and pushed (segments of p - L) elements
\* with the initial digest, L the length of the longest common prefix of
\* the old stack and p; the elements below L kept their digest state.
C3_SelectSetsStackToPath ==
    sel.valid =>
        LET segs == dir_names(sel.after)
            L == LongestCommonPrefix(dir_names(sel.before), segs)
        IN  /\ ~sel.err
            /\ Len(segs) >= 1
            /\ join(segs) = sel.path
            /\ \A i \in 1..Len(segs) : \A k \in 1..Len(segs[i]) :
                   segs[i][k] # 47
            /\ sel.npop = Len(sel.before) - L
            /\ sel.npush = Len(segs) - L
            /\ \A i \in 1..L : sel.after[i] = sel.before[i]
            /\ \A i \in (L + 1)..Len(segs) :
                   hexdigest(sel.after[i].h) = INITIAL_CK

\* A select that keeps one element, whose digest has absorbed a chunk,
\* pops two and pushes one.
C3_Witness ==
    /\ sel.valid
    /\ sel.npop = 2
    /\ sel.npush = 1
    /\ Len(sel.after) = 2
    /\ hexdigest(sel.after[1].h) # INITIAL_CK

\* The directory blocks of the run, from the history of sum_contents calls.
BlockSegs(i) == split(calls[i].path)

\* the last block of the subtree of block i: the stream is depth-first
SubtreeEnd(i) ==
    CHOOSE m \in i..Len(calls) :
        /\ \A k \in i..m : IsPrefix(BlockSegs(i), BlockSegs(k))
        /\ m = Len(calls) \/ ~IsPrefix(BlockSegs(i), BlockSegs(m + 1))

BlockStructure(i) ==
    [k \in 1..(SubtreeEnd(i) - i + 1) |->
        [rel |-> SubSeq(BlockSegs(i + k - 1), Len(BlockSegs(i)) + 1,
                        Len(BlockSegs(i + k - 1))),
         contents |-> calls[i + k - 1].contents]]

EmptyDirStructure == <<[rel |-> << >>, contents |-> << >>]>>

PrintedSets == {printed[a] : a \in 1..Len(printed)}

\* C4: at the end of a dups run, two sibling directories /u/v1 and /u/v2
\* with the same (non-empty) recursive structure, shared by no other
\* directory, are indexed under one digest and printed as one duplicate
\* set of size 2 classified top, wherever they stand in the stream.
C4_SiblingDuplicatesReported ==
    pc = "done" =>
        \A i, j \in 1..Len(calls) :
            ( /\ i < j
              /\ Len(BlockSegs(i)) = 3
              /\ Len(BlockSegs(j)) = 3
              /\ BlockSegs(i)[2] = BlockSegs(j)[2]
              /\ BlockStructure(i) = BlockStructure(j)
              /\ BlockStructure(i) # EmptyDirStructure
              /\ \A k \in 1..Len(calls) :
                    BlockStructure(k) = BlockStructure(i) => k \in {i, j} )
            => \E s \in PrintedSets :
                  /\ getitem(by_ck, s.ck) = <<calls[i].path, calls[j].path>>
                  /\ s.n = 2
                  /\ s.typ = "top"
                  /\ s.dirs = <<safe_decode(calls[i].path),
                                safe_decode(calls[j].path)>>

ProperAncestor(q, p) == split(q) # split(p) /\ IsPrefix(split(q), split(p))

\* C5: in a dups report, no path printed in a set classified top has an
\* ancestor directory in any printed set.
C5_TopHasNoReportedAncestor ==
    pc = "done" =>
        \A s, s2 \in PrintedSets :
            s.typ = "top" =>
                \A x \in 1..Len(s.dirs) : \A y \in 1..Len(s2.dirs) :
                    ~ProperAncestor(s2.dirs[y], s.dirs[x])

ParentPath(p) == join(SubSeq(split(p), 1, Len(split(p)) - 1))
BaseName(p) == split(p)[Len(split(p))]

\* the raw duplicate set: more than one path, not the empty directory
DupSet ==
    {by_ck[b].key : b \in {k \in 1..Len(by_ck) :
        Len(by_ck[k].val) > 1
        /\ by_ck[k].key # hexdigest(sha256(repr(<< >>)))}}

\* C6: when X and Y form a duplicate set, a duplicate set made of a
\* subdirectory of X and the subdirectory of Y of the same name is in the
\* raw duplicate set (unless they are empty) and is not printed.
C6_SubDuplicatesHidden ==
    pc = "done" =>
        \A a, b \in 1..Len(by_ck) :
            LET top == by_ck[a]
                sub == by_ck[b]
            IN  ( /\ top.key \in DupSet
                  /\ Len(top.val) = 2
                  /\ Len(sub.val) = 2
                  /\ ParentPath(sub.val[1]) = top.val[1]
                  /\ ParentPath(sub.val[2]) = top.val[2]
                  /\ BaseName(sub.val[1]) = BaseName(sub.val[2]) )
                => /\ \A s \in PrintedSets : s.ck # sub.key
                   /\ sub.key # EMPTY_DIR_CK => sub.key \in DupSet

\* C7: no set whose digest is that of the serialization of an empty entry
\* list is printed; when such sets are the only digests with more than one
\* path the report says that no duplicate was found.
C7_EmptyDirsNeverReported ==
    pc = "done" =>
        LET empty == hexdigest(sha256(repr(<< >>)))
        IN  /\ \A s \in PrintedSets : s.ck # empty
            /\ (\A b \in 1..Len(by_ck) :
                    Len(by_ck[b].val) > 1 => by_ck[b].key = empty)
               => banner = "No duplicate found" /\ printed = << >>

\* Three empty directories, one digest with several paths, nothing to report.
C7_Witness ==
    /\ pc = "done"
    /\ \E b \in 1..Len(by_ck) :
          by_ck[b].key = hexdigest(sha256(repr(<< >>)))
          /\ Len(by_ck[b].val) >= 3
    /\ banner = "No duplicate found"

\* the parent digests recorded for ck by pop_handler
RecordedParents(ck) ==
    {tree[i].key : i \in {k \in 1..Len(tree) : in_list(ck, tree[k].val)}}

Rank(p, l) == 1 + Cardinality({k \in 1..Len(l) : BytesLess(l[k], p)})

\* C8: each digest with several paths, other than the empty directory's,
\* is skipped exactly when all its recorded parent digests are duplicates,
\* printed as top exactly when none is, and as mix exactly when some but
\* not all are; a printed set shows the digest, the number of paths and
\* the paths in sorted order.
C8_ReportClassification ==
    pc = "done" =>
        /\ \A s \in PrintedSets : s.ck \in DupSet
        /\ \A a, b \in 1..Len(printed) :
              printed[a].ck = printed[b].ck => a = b
        /\ \A ck \in DupSet :
              LET P == RecordedParents(ck)
                  paths == getitem(by_ck, ck)
                  shown == {s \in PrintedSets : s.ck = ck}
              IN  /\ shown = {} <=> P \subseteq DupSet
                  /\ (\E s \in shown : s.typ = "top") <=> P \cap DupSet = {}
                  /\ (\E s \in shown : s.typ = "mix")
                        <=> (P \cap DupSet # {} /\ ~(P \subseteq DupSet))
                  /\ \A s \in shown :
                        /\ s.n = Len(paths)
                        /\ Len(s.dirs) = Len(paths)
                        /\ \A k \in 1..Len(paths) :
                              s.dirs[Rank(paths[k], paths)]
                                  = safe_decode(paths[k])

\* A report with a skipped set, a set printed as top and a set printed as
\* mix.
C8_Witness ==
    /\ pc = "done"
    /\ \E ck \in DupSet : \A s \in PrintedSets : s.ck # ck
    /\ \E s \in PrintedSets : s.typ = "top"
    /\ \E s \in PrintedSets : s.typ = "mix"

\* The size of a directory block on disk: the 16-byte header, the path and
\* its terminator, a tag, a name and a terminator per entry, the end tag.
RECURSIVE EntriesSize(_)
EntriesSize(es) ==
    IF es = << >> THEN 0 ELSE 1 + Len(es[1][2]) + 1 + EntriesSize(Tail(es))

DirSize(blk) == 16 + Len(blk.bname) + 1 + EntriesSize(blk.contents) + 1

FirstDirOffset == 16 + Len(src.root) + 1 + Len(src.conf)

\* the offset at which the k-th directory block of the file starts
RECURSIVE DirOffset(_)
DirOffset(k) ==
    IF k <= 1 THEN FirstDirOffset
    ELSE DirOffset(k - 1) + DirSize(src.dirs[k - 1])

\* C9: when the decoder hands control back, the cursor is on a record
\* boundary: after connect at 16 + len(root) + 1 + conf_block_size, after
\* the k-th yield at the start of block k + 1 (the end of the file after
\* the last block); the k-th block yielded, over all load_dirs calls, is
\* the k-th block of the file with all its entries.
C9_CursorOnRecordBoundary ==
    /\ gen.state = "connected" =>
          /\ pos = 16 + Len(header.root) + 1 + header.conf_block_size
          /\ pos = FirstDirOffset
    /\ gen.state = "suspended" =>
          /\ pos = DirOffset(nyield + 1)
          /\ pos <= Len(db)
          /\ nyield = Len(src.dirs) => pos = Len(db)
          /\ nyield \in 1..Len(src.dirs)
          /\ yielded.bname = src.dirs[nyield].bname
          /\ yielded.contents = src.dirs[nyield].contents

\* The second block of a file with a configuration block, yielded with its
\* entries by a second load_dirs call after the first one was left at its
\* first block.
C9_Witness ==
    /\ gen.state = "suspended"
    /\ gen.ncalls = 2
    /\ nyield = 2
    /\ Len(yielded.contents) > 0
    /\ yielded.bname # src.dirs[1].bname
    /\ conf # << >>

\* C10: a file that ends 1 to 15 bytes into a directory header makes
\* load_dirs fail; a file that ends at a header boundary ends the stream
\* without error.
C10_TruncatedHeaderIsAnError ==
    /\ gen.buflen \in 1..15 => gen.state = "error"
    /\ gen.buflen = 0 => gen.state \in {"done", "new"}

\* C11: a string that meets the end of the file before its terminator makes
\* the read end with an error: load_dirs on a file cut inside a directory
\* path or an entry name never reads for ever.
C11_TruncatedStringIsAnError == gen.state # "hang"

\* the offset of the i-th record after the path of the block last yielded,
\* counted from the entries decoded before it
RECURSIVE RecordOffset(_)
RecordOffset(i) ==
    IF i <= 1 THEN DirOffset(nyield) + 16 + Len(yielded.bname) + 1
    ELSE RecordOffset(i - 1) + 2 + Len(yielded.contents[i - 1][2])

\* C12: the entries of a yielded block are, in order, the (tag, name)
\* records that lie on disk between the path and the first tag 2: tag 1
\* gives (True, name), tag 0 gives (False, name), the names are the bytes
\* up to the terminator, and the tag 2 gives no entry.
C12_EntriesInDiskOrder ==
    gen.state = "suspended" =>
        LET n == Len(yielded.contents)
        IN  /\ \A i \in 1..n :
                  LET e == yielded.contents[i]
                      at == RecordOffset(i)
                  IN  /\ db[at + 1] \in {0, 1}
                      /\ e[1] = (db[at + 1] = 1)
                      /\ e[2] = SubSeq(db, at + 2, at + 1 + Len(e[2]))
                      /\ \A j \in 1..Len(e[2]) : e[2][j] # 0
                      /\ db[at + 2 + Len(e[2])] = 0
            /\ db[RecordOffset(n + 1) + 1] = 2
            /\ pos = RecordOffset(n + 1) + 1

\* The second block of a file, yielded with a subdirectory entry followed
\* by a file entry.
C12_Witness ==
    /\ gen.state = "suspended"
    /\ nyield = 2
    /\ Len(yielded.contents) = 2
    /\ yielded.contents[1][1]
    /\ ~yielded.contents[2][1]

\* the whole number of microseconds nearest to n nanoseconds, a half going
\* to the even neighbour
NearestMicros(n) ==
    CHOOSE m \in {n \div 1000, n \div 1000 + 1} :
        LET other == IF m = n \div 1000 THEN m + 1 ELSE m - 1
            dist(x) == IF 1000 * x >= n THEN 1000 * x - n ELSE n - 1000 * x
        IN  \/ dist(m) < dist(other)
            \/ dist(m) = dist(other) /\ m % 2 = 0

\* the k-th block of the file lies wholly in the file
BlockComplete(k) == k \in 1..Len(src.dirs) /\ DirOffset(k + 1) <= Len(db)

\* C13: a block whose header holds s seconds and n nanoseconds is decoded
\* without error, with the time s seconds plus round(n / 1000)
\* microseconds, the excess over a second carried into the seconds.
C13_TimestampRounded ==
    /\ gen.state = "suspended" =>
          LET us == NearestMicros(src.dirs[nyield].nanos)
          IN  /\ yielded.dt.seconds
                    = src.dirs[nyield].seconds + us \div 1000000
              /\ yielded.dt.microsecond = us % 1000000
    /\ gen.state = "error" => ~BlockComplete(nyield + 1)

\* the number of blocks that lie wholly in the file
RECURSIVE CompleteBlocks(_)
CompleteBlocks(k) ==
    IF BlockComplete(k) THEN CompleteBlocks(k + 1) ELSE k - 1

\* C18: once a generator load_dirs(limit) has ended, it has yielded
\* min(limit, N) blocks when limit > 0 and N blocks when limit = 0, N the
\* number of blocks the file held from the cursor on; it never yields more
\* than limit blocks, it yields them in file order, and when it stops at
\* its limit the cursor is at the end of the last block yielded.
C18_LimitHonoured ==
    LET y == nyield - gen.base
        N == CompleteBlocks(1) - gen.base
        limit == gen.limit0
    IN  /\ gen.state \in {"suspended", "done", "error", "hang"} /\ limit > 0
              => y <= limit
        /\ gen.state = "suspended" =>
              yielded.bname = src.dirs[gen.base + y].bname
        /\ gen.state \in {"done", "error", "hang"} =>
              /\ limit > 0 => y = min(limit, N)
              /\ limit = 0 => y = N
              /\ (limit > 0 /\ y = limit) => pos = DirOffset(nyield + 1)

\* the UTF-8 encoding of a text of code points below U+0800
RECURSIVE utf8_encode(_)
utf8_encode(text) ==
    IF text = << >> THEN << >>
    ELSE (IF text[1] < 128 THEN <<text[1]>>
          ELSE <<192 + (text[1] \div 64), 128 + (text[1] % 64)>>)
         \o utf8_encode(Tail(text))

HexValue(c) == IF c >= 97 THEN c - 87 ELSE c - 48

IsEscape(text) == Len(text) >= 4 /\ text[1] = 92 /\ text[2] = 120

\* the bytes an escaped text stands for: \xHH is the byte HH, any other
\* character its UTF-8 encoding
RECURSIVE Unescape(_)
Unescape(text) ==
    IF text = << >> THEN << >>
    ELSE IF IsEscape(text)
    THEN <<16 * HexValue(text[3]) + HexValue(text[4])>>
         \o Unescape(SubSeq(text, 5, Len(text)))
    ELSE utf8_encode(<<text[1]>>) \o Unescape(Tail(text))

\* only the bytes that cannot be decoded are escaped: no escape of an
\* ASCII byte, no escape of a lead byte followed by that of its continuation
RECURSIVE MinimalEscapes(_)
MinimalEscapes(text) ==
    IF text = << >> THEN TRUE
    ELSE IF IsEscape(text)
    THEN LET b == 16 * HexValue(text[3]) + HexValue(text[4])
             rest == SubSeq(text, 5, Len(text))
         IN  /\ b >= 128
             /\ ~(/\ b >= 194 /\ b <= 223
                  /\ IsEscape(rest)
                  /\ 16 * HexValue(rest[3]) + HexValue(rest[4]) >= 128
                  /\ 16 * HexValue(rest[3]) + HexValue(rest[4]) <= 191)
             /\ MinimalEscapes(rest)
    ELSE MinimalEscapes(Tail(text))

\* the texts whose UTF-8 encoding is made of the bytes of the names
DecodableTexts == SeqsUpTo({97, 233}, MaxBytes)

\* C20: safe_decode returns a text for every byte string and prefix; for a
\* valid UTF-8 string it is the text that string encodes and nothing is
\* logged; for an invalid one it is the text of the string alone with the
\* undecodable bytes escaped, without the prefix, and two diagnostics are
\* logged.
C20_SafeDecodeNeverFails ==
    sd.called =>
        LET valid == \E x \in DecodableTexts : utf8_encode(x) = sd.data
        IN  /\ valid =>
                  /\ sd.text \in DecodableTexts
                  /\ utf8_encode(sd.text) = sd.data
                  /\ sd.log = << >>
            /\ ~valid =>
                  /\ Unescape(sd.text) = sd.data
                  /\ MinimalEscapes(sd.text)
                  /\ \E i \in 1..Len(sd.text) : sd.text[i] = 92
                  /\ Len(sd.log) = 2
                  /\ sd.log[1].arg = sd.data
                  /\ sd.log[2].arg = sd.prefix \o sd.text

\* An invalid byte after a valid two-byte character, decoded with a prefix.
C20_Witness ==
    /\ sd.called
    /\ sd.data = <<195, 169, 255>>
    /\ sd.prefix = <<100, 47>>
    /\ sd.text = <<233, 92, 120, 102, 102>>
    /\ Len(sd.log) = 2

Accepted(e, selectors) == \E k \in 1..Len(selectors) : e[2] \in selectors[k]

\* the positions of the entries that at least one selector accepts
MatchingPositions ==
    {i \in 1..Len(dblk.contents) : Accepted(dblk.contents[i], dblk.selectors)}

\* the j-th of them
NthMatching(j) ==
    CHOOSE i \in MatchingPositions :
        Cardinality({x \in MatchingPositions : x < i}) = j - 1

\* C14: match_contents returns the entries accepted by at least one
\* selector, in entry order and once each, the first `limit` of them when
\* limit > 0 and all of them when limit = 0; it tests no entry after the
\* one that reaches the limit, sets selection to the list it returns and
\* leaves the entries as they were.
C14_MatchContents ==
    dblk.called =>
        LET n == Cardinality(MatchingPositions)
            want == IF dblk.limit > 0 /\ dblk.limit < n THEN dblk.limit ELSE n
        IN  /\ Len(dblk.result) = want
            /\ \A j \in 1..want :
                  dblk.result[j] = dblk.contents[NthMatching(j)]
            /\ dblk.scanned
                  = IF dblk.limit > 0 /\ dblk.limit <= n
                    THEN NthMatching(dblk.limit)
                    ELSE Len(dblk.contents)
            /\ dblk.selection = Some(dblk.result)
            /\ dblk.contents = dblk.before

\* Three entries, the first one rejected, the second accepted by both
\* selectors, the third accepted too but left untested at the limit of 1.
C14_Witness ==
    /\ dblk.called
    /\ dblk.contents = <<<<FALSE, <<99>>>>, <<FALSE, <<97>>>>, <<TRUE, <<98>>>>>>
    /\ dblk.selectors = <<{<<97>>}, {<<97>>, <<98>>}>>
    /\ dblk.limit = 1
    /\ dblk.result = <<<<FALSE, <<97>>>>>>
    /\ dblk.scanned = 2

\* C15: Tree.load(path) returns the path relative to the root followed by
\* one separator exactly when the path starts with the root, and None
\* otherwise; when it returns None the tree, the cursor stack and rel_path
\* are as they were.
C15_LoadReturnsRelativePath ==
    tr.called =>
        LET n == Len(tr.root)
            starts == /\ Len(tr.path) >= n
                      /\ \A i \in 1..n : tr.path[i] = tr.root[i]
            rel == [i \in 1..(Len(tr.path) - n) |-> tr.path[n + i]]
        IN  /\ starts <=> ~tr.ret.none
            /\ starts => tr.ret.val = rel \o <<47>> /\ tr.rel_path = tr.ret.val
            /\ ~starts =>
                  /\ tr.tree = tr.before.tree
                  /\ tr.stack = tr.before.stack
                  /\ tr.rel_path = tr.before.rel_path

\* A load that returns None on a Tree that holds two levels already.
C15_Witness ==
    /\ tr.called
    /\ tr.ret.none
    /\ Len(tr.stack) = 2
    /\ tr.rel_path # << >>
    /\ tr.path = <<47, 113, 47, 97>>

\* the load calls made so far whose path starts with the root
LoadedCalls == {i \in 1..Len(tr.loads) : IsPrefix(tr.root, tr.loads[i])}

\* the segments below the root of the path of the i-th load call
LoadedNodes(i) ==
    split(SubSeq(tr.loads[i], Len(tr.root) + 1, Len(tr.loads[i])))

\* the paths arrived in depth-first order: a parent before its descendants,
\* and no subtree entered again once it has been left
DepthFirstLoads ==
    /\ \A k \in LoadedCalls :
          Len(LoadedNodes(k)) > 1 =>
              \E i \in LoadedCalls :
                  /\ i < k
                  /\ LoadedNodes(i)
                        = SubSeq(LoadedNodes(k), 1, Len(LoadedNodes(k)) - 1)
    /\ \A i, j, k \in LoadedCalls :
          (i < j /\ j < k) =>
              \A m \in 1..Len(LoadedNodes(i)) :
                  IsPrefix(SubSeq(LoadedNodes(i), 1, m), LoadedNodes(k))
                      => IsPrefix(SubSeq(LoadedNodes(i), 1, m), LoadedNodes(j))

RECURSIVE NoTwinChildren(_)
NoTwinChildren(nodes) ==
    /\ \A i, j \in 1..Len(nodes) : nodes[i][1] = nodes[j][1] => i = j
    /\ \A i \in 1..Len(nodes) : NoTwinChildren(nodes[i][2])

RECURSIVE HasChain(_, _)
HasChain(nodes, names) ==
    \/ names = << >>
    \/ \E i \in 1..Len(nodes) :
          nodes[i][1] = names[1] /\ HasChain(nodes[i][2], Tail(names))

\* C16: when the paths of the load calls arrived in depth-first order,
\* after a call that returned a value the tree holds the chain of the
\* segments of its path below the root, no node has two children of the
\* same name, and the cursor stack is the segments of that path.
C16_TreeHoldsEachSegmentOnce ==
    (tr.called /\ ~tr.ret.none /\ DepthFirstLoads) =>
        LET names == LoadedNodes(Len(tr.loads))
        IN  /\ NoTwinChildren(tr.tree)
            /\ HasChain(tr.tree, names)
            /\ tr.stack = names

\* /r/a, /r/a/x, /r/b and /r/b/x loaded in this order below /r/: two
\* branches of two levels.
C16_Witness ==
    /\ tr.called
    /\ ~tr.ret.none
    /\ DepthFirstLoads
    /\ tr.root = <<47, 114, 47>>
    /\ Len(tr.loads) = 4
    /\ tr.tree = <<<<<<97>>, <<<<<<120>>, << >>>>>>>>,
                   <<<<98>>, <<<<<<120>>, << >>>>>>>>>>
    /\ tr.stack = <<<<98>>, <<120>>>>

(***************************************************************************)
(* The tree query                                                          *)
(***************************************************************************)
\* the k-th block delivered to the loop matches a pattern
SeenMatches(k) ==
    \E i \in 1..Len(qry.selectors) : qry.seen[k] \in qry.selectors[i]

\* the path p lies inside the subtree of the directory top
InsideSubtree(p, top) ==
    /\ Len(p) > Len(top)
    /\ SubSeq(p, 1, Len(top) + 1) = top \o <<47>>

\* The k-th delivered block is a selected directory: it matches a pattern
\* and lies inside no subtree selected before it.
RECURSIVE SelectedRoot(_)
SelectedRoot(k) ==
    /\ SeenMatches(k)
    /\ \A j \in 1..(k - 1) :
          ~(SelectedRoot(j) /\ InsideSubtree(qry.seen[k], qry.seen[j]))

\* the number of selected directories among the first k delivered blocks
SelectedUpTo(k) == Cardinality({j \in 1..k : SelectedRoot(j)})

\* C17: when the tree query has ended, every delivered directory that
\* matches a pattern and lies inside no subtree selected before it (the
\* first limit_output_dirs of them when that limit is not 0) is the root of
\* a rendered subtree, also when it is the block that ends the subtree
\* selected before it.
C17_EverySelectedDirectoryRendered ==
    (pc = "subtree" /\ qry.pc = "done") =>
        \A k \in 1..Len(qry.seen) :
            (/\ SelectedRoot(k)
             /\ (qry.limit_output_dirs = 0
                    \/ SelectedUpTo(k) <= qry.limit_output_dirs))
            => \E n \in 1..Len(qry.out) :
                   qry.out[n].root = qry.seen[k] \o <<47>>

(***************************************************************************)
(* The find query                                                          *)
(***************************************************************************)
\* the entry e is accepted by a pattern of the query
EntryAccepted(e) ==
    \E i \in 1..Len(qry.selectors) : e[2] \in qry.selectors[i]

\* the entries of the k-th delivered block that a pattern accepts, as the
\* database holds them
SeenAccepted(k) ==
    LET i == CHOOSE n \in 1..Len(src.dirs) :
                 src.dirs[n].bname = qry.seen[k]
    IN  SelectSeq(src.dirs[i].contents, EntryAccepted)

\* the delivered blocks with an accepted entry, in delivery order
SeenWithMatch ==
    LET F[k \in 0..Len(qry.seen)] ==
            IF k = 0 THEN << >>
            ELSE IF SeenAccepted(k) # << >> THEN Append(F[k - 1], k)
            ELSE F[k - 1]
    IN  F[Len(qry.seen)]

IsDirItem(item) == item.kind = "dir"

\* the directories emitted so far
Emitted == SelectSeq(qry.out, IsDirItem)

\* what the n-th emitted directory shows of its matches: the number the
\* count action prints, the entries the list and json actions print
ShownMatches(n) ==
    IF qry.action = "count" THEN Emitted[n].nmatches
    ELSE Len(Emitted[n].matches)

FindLimitsState ==
    /\ pc = "find"
    /\ qry.limit_output_dirs > 0 => Len(Emitted) <= qry.limit_output_dirs
    /\ Len(Emitted) = Len(SeenWithMatch)
    /\ qry.count = Len(Emitted)
    /\ \A n \in 1..Len(Emitted) :
          LET all == SeenAccepted(SeenWithMatch[n])
          IN  /\ Emitted[n].name = qry.seen[SeenWithMatch[n]]
              /\ qry.limit_output_match > 0 =>
                    /\ ShownMatches(n) <= qry.limit_output_match
                    /\ Len(Emitted[n].r) <= qry.limit_output_match
              /\ (qry.limit_output_match = 0 /\ qry.action # "test") =>
                    /\ ShownMatches(n) = Len(all)
                    /\ Emitted[n].r = all

FindLimitsStep ==
    (qry.limit_output_dirs > 0 /\ Len(Emitted) >= qry.limit_output_dirs) =>
        (pos' = pos /\ nyield' = nyield /\ gen' = gen)

C21_DryRunOpensNothing ==
    (qry.command # "" /\ qry.dry_run) =>
        /\ db = << >>
        /\ pos = 0
        /\ header = NoHeader
        /\ conf = << >>
        /\ gen = NoGen
        /\ nyield = 0
        /\ qry.pc = "start"
        /\ qry.out = << >>
        /\ pc \in {"cli", "done"}
        /\ stack = << >>

(***************************************************************************)
(* The hash stack, continued                                               *)
(***************************************************************************)
\* the entries of the list c are pairwise different
DistinctEntries(c) ==
    \A m, n \in 1..Len(c) : c[m] = c[n] => m = n

\* the list c2 is the list c1 in another order
Reordered(c1, c2) ==
    /\ Len(c1) = Len(c2)
    /\ c1 # c2
    /\ \E f \in [1..Len(c1) -> 1..Len(c1)] :
          /\ \A m, n \in 1..Len(c1) : f[m] = f[n] => m = n
          /\ \A m \in 1..Len(c1) : c2[m] = c1[f[m]]

\* C22: the digest sum_contents returns depends on the entries list only:
\* two calls with the same list return the same digest whatever the stack
\* holds, and two calls whose lists are different orderings of the same
\* distinct entries return different digests.
C22_StandaloneDigest ==
    \A i, j \in 1..Len(calls) :
        /\ calls[i].contents = calls[j].contents =>
              calls[i].ret = calls[j].ret
        /\ (/\ DistinctEntries(calls[i].contents)
            /\ Reordered(calls[i].contents, calls[j].contents)) =>
              calls[i].ret # calls[j].ret

\* Two calls with the same list of two entries were made on stacks of
\* different digests, and a third call was given the list in the other
\* order.
C22_Witness ==
    \E i, j, k \in 1..Len(calls) :
        /\ Len(calls[i].contents) = 2
        /\ calls[i].contents = calls[j].contents
        /\ calls[i].levels # calls[j].levels
        /\ Reordered(calls[i].contents, calls[k].contents)

(***************************************************************************)
(* DictOfLists                                                             *)
(***************************************************************************)
\* the values given to add_to for the key, in call order
AddedTo(key) ==
    LET F[n \in 0..Len(dol.adds)] ==
            IF n = 0 THEN << >>
            ELSE IF dol.adds[n].key = key
                 THEN Append(F[n - 1], dol.adds[n].value)
                 ELSE F[n - 1]
    IN  F[Len(dol.adds)]

\* the keys of a dictionary given as the list of its items
KeysOf(items) == {items[i].key : i \in 1..Len(items)}

\* C23: reading an absent key returns the empty list and leaves the
\* dictionary as it was (the key is not inserted); after any sequence of
\* add_to calls the keys are those given to add_to, once each, and each
\* key maps to the values added to it, in call order.
C23_DictOfLists ==
    /\ dol.called =>
          /\ dol.after = dol.before
          /\ dol.key \notin KeysOf(dol.before) => dol.ret = << >>
    /\ KeysOf(dol.items) = {dol.adds[n].key : n \in 1..Len(dol.adds)}
    /\ \A i, j \in 1..Len(dol.items) :
          dol.items[i].key = dol.items[j].key => i = j
    /\ \A i \in 1..Len(dol.items) :
          dol.items[i].val = AddedTo(dol.items[i].key)

\* Key a holds two values and key d one, added in between, and the absent
\* key e was read after them.
C23_Witness ==
    /\ dol.adds = <<[key |-> "a", value |-> "b"], [key |-> "d", value |-> "b"],
                    [key |-> "a", value |-> "c"]>>
    /\ dol.called
    /\ dol.key = "e"
    /\ dol.before = dol.items

\* the kind of the n-th printed item: "[", ",", "]" or "dir"
OutKind(n) == qry.out[n].kind

\* C24: with the json action, once do_filter has started the first thing
\* printed is "[" and no other "[" follows; every "," stands between two
\* directory objects and two directory objects never follow each other
\* without one; "]" is printed exactly when the query is over, as the last
\* thing, also with no directory emitted and also when limit_output_dirs
\* ended the loop.
C24_JsonPunctuation ==
    (pc = "find" /\ qry.action = "json" /\ qry.pc # "start") =>
        LET n == Len(qry.out)
        IN  /\ n >= 1
            /\ OutKind(1) = "["
            /\ \A i \in 2..n : OutKind(i) # "["
            /\ \A i \in 1..n :
                  /\ OutKind(i) = "," =>
                        /\ i > 1 /\ OutKind(i - 1) = "dir"
                        /\ i < n /\ OutKind(i + 1) = "dir"
                  /\ (OutKind(i) = "dir" /\ i < n) =>
                        OutKind(i + 1) \in {",", "]"}
                  /\ OutKind(i) = "]" => (i = n /\ qry.pc # "loop")
            /\ qry.pc # "loop" => (n >= 2 /\ OutKind(n) = "]")

(***************************************************************************)
(* The pops of a select, as the pop observer of App sees them              *)
(***************************************************************************)
\* the number of times the value v stands in the list of the key
Occurrences(dl, key, v) ==
    Cardinality({n \in 1..Len(getitem(dl, key)) : getitem(dl, key)[n] = v})

\* the list of segments p is a prefix of the list q
SegmentPrefix(p, q) ==
    Len(p) <= Len(q) /\ SubSeq(q, 1, Len(p)) = p

\* What the m-th pop of a select on the present stack has to hand to the
\* observer: the element at depth Len(stack) - m + 1, its digest as it
\* stands, and the path of the stack down to it.
ExpectedPop(m) ==
    LET j == Len(stack) - m + 1
    IN  [ck |-> hexdigest(stack[j].h),
         path |-> join(dir_names(SubSeq(stack, 1, j))),
         depth |-> j - 1]

PopsOfStep ==
    LET npop == Len(pops') - Len(pops)
    IN  /\ npop >= 0
        /\ npop <= Len(stack)
        /\ \A m \in 1..npop :
              LET e == pops'[Len(pops) + m]
                  x == ExpectedPop(m)
              IN  /\ e.depth = x.depth
                  /\ e.ck = x.ck
                  /\ e.path = x.path
                  /\ sel.valid
                  /\ SegmentPrefix(split(x.path), split(sel.path))
        /\ \A i \in 1..Len(by_ck') :
              LET key == by_ck'[i].key
              IN  \A n \in 1..Len(by_ck'[i].val) :
                      LET v == by_ck'[i].val[n]
                      IN  Occurrences(by_ck', key, v)
                              - Occurrences(by_ck, key, v)
                          = Cardinality({m \in 1..npop :
                                           /\ ExpectedPop(m).ck = key
                                           /\ ExpectedPop(m).path = v})
        /\ \A i \in 1..Len(by_ck) :
              \A n \in 1..Len(by_ck[i].val) :
                  Occurrences(by_ck', by_ck[i].key, by_ck[i].val[n])
                      >= Occurrences(by_ck, by_ck[i].key, by_ck[i].val[n])
        /\ SubSeq(stack', 1, Len(stack) - npop)
              = IF stack' = stack THEN stack
                ELSE [i \in 1..(Len(stack) - npop) |->
                         [stack[i] EXCEPT !.h = stack'[i].h]]

\* C25: the pops of a select take the elements the stack held before the
\* select, deepest first (so all of them come before the first push); for
\* each of them the observer is called once, with the digest of the
\* element and the path made of the segments left on the stack and the
\* popped one; that path is a segment prefix of the path of the select
\* before.
C25_PopsOfSelect == [][pc = "run" => PopsOfStep]_vars

\* The last select popped two elements, /a/a and /a, and both are indexed.
C25_Witness ==
    /\ pc = "run"
    /\ sel.valid
    /\ sel.npop = 2
    /\ \E i, j \in 1..Len(by_ck) :
          /\ <<47, 97, 47, 97>> \in {by_ck[i].val[n] : n \in 1..Len(by_ck[i].val)}
          /\ <<47, 97>> \in {by_ck[j].val[n] : n \in 1..Len(by_ck[j].val)}

(***************************************************************************)
(* The dups run, continued                                                 *)
(***************************************************************************)
\* the number of times the path stands in by_ck, under any digest
TimesIndexed(path) ==
    LET F[i \in 0..Len(by_ck)] ==
            IF i = 0 THEN 0
            ELSE F[i - 1] + Occurrences(by_ck, by_ck[i].key, path)
    IN  F[Len(by_ck)]

\* C26: when report has read by_ck, every directory block that was passed
\* to process_dir has been popped from the hash stack and its path stands
\* exactly once in by_ck, the last block of the stream and its ancestors
\* included.
C26_EveryDirectoryFinalized ==
    pc = "done" =>
        /\ stack = << >>
        /\ \A i \in 1..Len(calls) : TimesIndexed(calls[i].path) = 1

\* the values of a list, as a set
ValuesOf(list) == {list[n] : n \in 1..Len(list)}

\* C27: when the report is made, for every popped directory whose parent
\* directory has been popped too, the parent digest recorded at the pop is
\* the digest the parent is indexed under in by_ck: the child's digest
\* stands in tree under that digest, and that digest stands in rtree under
\* the child's digest; also when other subdirectories of the parent were
\* visited after the child.
C27_ParentDigestIsFinal ==
    pc = "done" =>
        \A k \in 1..Len(pops) :
            LET e == pops[k]
                q == ParentPath(e.path)
            IN  (Len(split(e.path)) > 2 /\ TimesIndexed(q) > 0) =>
                    \E i \in 1..Len(by_ck) :
                        /\ q \in ValuesOf(by_ck[i].val)
                        /\ e.ck \in ValuesOf(getitem(tree, by_ck[i].key))
                        /\ by_ck[i].key \in ValuesOf(getitem(rtree, e.ck))

\* the directory of path p is an ancestor of that of path q
AncestorPath(p, q) ==
    /\ Len(split(p)) < Len(split(q))
    /\ SegmentPrefix(split(p), split(q))

\* C28: no list of by_ck holds a directory together with one of its
\* ancestors, and no printed set does, whatever blocks the path filter
\* passed over.
C28_NoSetHoldsAncestor ==
    /\ \A i \in 1..Len(by_ck) :
          \A p, q \in ValuesOf(by_ck[i].val) : ~AncestorPath(p, q)
    /\ \A n \in 1..Len(printed) :
          \A p, q \in ValuesOf(printed[n].dirs) : ~AncestorPath(p, q)

(***************************************************************************)
(* The digests of the levels of the hash stack                             *)
(***************************************************************************)
\* the byte sequence a is a suffix of the byte sequence b
IsSuffix(a, b) ==
    Len(a) <= Len(b) /\ SubSeq(b, Len(b) - Len(a) + 1, Len(b)) = a

\* C29: in every state of the hash stack each level has absorbed the
\* chunks of the sum_contents calls made since it was pushed, in order, so
\* what a deeper level has absorbed is a suffix of what any level above it
\* has absorbed, and a level pushed after the last sum_contents call has
\* absorbed nothing: its digest is the initial digest.
C29_DeeperLevelsAbsorbSuffix ==
    /\ \A i \in 1..Len(stack) :
          /\ stack[i].h = sha256(ChunksBetween(stack[i].since, Len(calls)))
          /\ stack[i].since = Len(calls) =>
                hexdigest(stack[i].h) = INITIAL_CK
    /\ \A i, j \in 1..Len(stack) :
          i < j =>
              /\ stack[i].since <= stack[j].since
              /\ IsSuffix(stack[j].h, stack[i].h)

\* Three levels after two sum_contents calls: the first level was pushed
\* before both and has absorbed the two chunks, the deepest one was pushed
\* after the first call and has absorbed the second chunk only.
C29_Witness ==
    /\ pc = "stack"
    /\ Len(stack) = 3
    /\ Len(calls) = 2
    /\ stack[1].since = 0
    /\ stack[3].since = 1
    /\ stack[3].h # << >>
    /\ stack[3].h # stack[1].h
    /\ stack[1].h = calls[1].chunk \o stack[3].h

(***************************************************************************)
(* The root segment                                                        *)
(***************************************************************************)
\* C30: in a run whose select calls are all given absolute paths, from the
\* first select on the bottom of the stack is the root segment b'' that
\* this select pushed; no pop removes it, so every pop leaves at least one
\* element for the observer and pop_handler's read of the digest at the
\* top of the stack never fails.
C30_RootSegmentStays ==
    (pc \in {"run", "done", "crashed"} /\ sel.valid) =>
        /\ sel.path # << >> /\ sel.path[1] = sep[1]
        /\ Len(stack) >= 1
        /\ stack[1].name = << >>
        /\ stack[1].since = 0
        /\ \A k \in 1..Len(pops) : pops[k].depth >= 1
        /\ ~sel.err
        /\ pc # "crashed"

\* A directory of the first level has been popped by a later select: the
\* pop left the root segment alone on the stack for the observer.
C30_Witness ==
    /\ pc = "run"
    /\ sel.valid
    /\ sel.npop >= 1
    /\ \E k \in 1..Len(pops) : pops[k].depth = 1
    /\ stack[1].name = << >>

=============================================================================
